---------------------------- MODULE Spec2Model ----------------------------
(***************************************************************************)
(* Model of src/slice.py: the slice engine that scans decompiled text for  *)
(* trigger matches and emits capped, deduplicated line-window slices.      *)
(*                                                                         *)
(* Abstractions.                                                           *)
(*  - A text is a sequence of characters over {"x","T","NL","CR"}: "x" an  *)
(*    ordinary character, "T" a character standing for one occurrence of a *)
(*    dangerous-API token (CTX_TOKENS), "NL" the newline character and     *)
(*    "CR" a carriage return (a line break for str.splitlines only).       *)
(*  - The regular expressions of RX_HIGH / RX_MID are not evaluated: a     *)
(*    unit carries, per trigger, the hits that finditer yields on its      *)
(*    text, as (s, e, frag) with 0-based offsets s < e <= len(text).       *)
(*  - A fragment is the set of (case-folded) literal patterns that occur   *)
(*    in the matched text; an allowlist regex "p1|p2|..." is the sequence  *)
(*    of its literal alternatives, and rx.search(frag) holds iff one of    *)
(*    them occurs in the fragment.                                         *)
(*  - DEDUP_SAME and DEDUP_DIFF are kept in tenths (0.6 -> 6, 0.9 -> 9)    *)
(*    and the ratio inter/base is compared by cross-multiplication.        *)
(***************************************************************************)
EXTENDS Integers, Sequences, FiniteSets, TLC

VARIABLES
    CFG,             \* the process-wide configuration dict (slice.py:4-20)
    ALLOWLIST_RX,    \* trigger -> compiled allowlist (slice.py:58)
    override,        \* content of the --allowlist file still to be loaded
    source,          \* what --in-dir or --in-json names, still to be loaded
    RX_MID,          \* the keys of the RX_MID dict (slice.py:42-55)
    disable_mid,     \* the names given with --disable-mid
    units,           \* the batch handed to process_units
    errors,          \* summary["errors"]
    summary,         \* summary["units"], summary["total_slices"] once set
    out_units,       \* process_units local out_units
    out_pos,         \* history: the index in units each output unit was made from
    total,           \* process_units local total
    pc,              \* position in main / process_units
    ui,              \* index (1-based) of the unit the for-loop is at
    lines,           \* _text_to_lines(text) of the current unit
    high_matches,    \* _collect_matches(text)[0] of the current unit
    mid_matches,     \* _collect_matches(text)[1] of the current unit
    sev_flags,       \* _severity_policy(...) of the current unit
    slices,          \* slices accepted so far for the current unit
    per_trigger_cnt, \* per-trigger counters of the current unit
    ki,              \* index of the trigger key the current phase is at
    mi,              \* index of the next match of that key
    mid_budget,      \* max(0, PER_UNIT_CAP - len(slices)) after the high phase
    added,           \* strong-high path quota counter
    fn               \* pure-function harness: inputs and result

vars == << CFG, ALLOWLIST_RX, override, source, RX_MID, disable_mid, units, errors,
           summary, out_units, out_pos,
           total, pc, ui, lines, high_matches, mid_matches, sev_flags, slices,
           per_trigger_cnt, ki, mi, mid_budget, added, fn >>

-----------------------------------------------------------------------------
(* Small helpers *)

Max(a, b) == IF a >= b THEN a ELSE b
Min(a, b) == IF a <= b THEN a ELSE b
Range(f) == { f[i] : i \in DOMAIN f }
Get(f, k, d) == IF k \in DOMAIN f THEN f[k] ELSE d

RECURSIVE SumSeq(_)
SumSeq(q) == IF q = << >> THEN 0 ELSE Head(q) + SumSeq(Tail(q))

-----------------------------------------------------------------------------
(* Trigger catalogs and key orders *)

RX_HIGH_KEYS == << "reg_run", "service_str", "tasks_sched", "inline_syscall",
                   "pe_embed", "mz_pe_hdr" >>
RX_MID_KEYS == << "b64_blob", "hex_array", "anti_debug", "indirect_call",
                  "cast_call", "xor_loop", "xor_assign", "rol_ror_loop",
                  "com_sched" >>
AllKeys == Range(RX_HIGH_KEYS) \cup Range(RX_MID_KEYS)

\* Mutant: the PE triggers come first in the high key order.
HIGH_ORDER_pe_first == << "pe_embed", "mz_pe_hdr", "reg_run", "service_str",
                          "tasks_sched", "inline_syscall" >>

HIGH_ORDER == << "reg_run", "service_str", "tasks_sched", "inline_syscall",
                 "pe_embed", "mz_pe_hdr" >>
STRONG_KEYS == << "reg_run", "service_str", "tasks_sched", "inline_syscall" >>
PE_KEYS == << "pe_embed", "mz_pe_hdr" >>
STRONG_MID_ORDER == << "b64_blob", "anti_debug", "hex_array", "indirect_call",
                       "xor_loop", "xor_assign" >>
MID_ORDER == << "b64_blob", "hex_array", "anti_debug", "indirect_call",
                "cast_call", "xor_loop", "xor_assign", "rol_ror_loop",
                "com_sched" >>

DEFAULT_ALLOW ==
    [ k \in {"reg_run"} |->
        << "onedrive", "securityhealth", "windows defender", "teams", "slack",
           "nvidia", "audio", "hp", "logi", "razer", "adobe" >> ]

DefaultCFG ==
    [ WINDOW_LINES |-> 20, PER_UNIT_CAP |-> 12, TOTAL_CAP |-> 4000,
      SNIPPET_CHARS |-> 120, PE_PROMOTE_WITH_MID |-> 1,
      DEDUP_SAME |-> 6, DEDUP_DIFF |-> 9,
      SKIP_MID_WHEN_STRONG_HIGH |-> TRUE, MID_MIN_WHEN_STRONG_HIGH |-> 2,
      MID_WHITELIST_STRONG |-> << "b64_blob", "anti_debug", "hex_array" >>,
      PER_TRIGGER_CAP |-> 3, INDIRECT_CONTEXT_ONLY |-> FALSE,
      CONTEXT_RADIUS |-> 40 ]

-----------------------------------------------------------------------------
(* Text and line windows *)

IsBreak(c) == c = "NL" \/ c = "CR"

\* str.splitlines(): lines end at NL, CR or CR NL; no empty last line.
RECURSIVE SplitFrom(_, _, _, _)
SplitFrom(text, i, cur, acc) ==
    IF i > Len(text)
    THEN IF cur = << >> THEN acc ELSE Append(acc, cur)
    ELSE IF IsBreak(text[i])
         THEN IF text[i] = "CR" /\ i < Len(text) /\ text[i + 1] = "NL"
              THEN SplitFrom(text, i + 2, << >>, Append(acc, cur))
              ELSE SplitFrom(text, i + 1, << >>, Append(acc, cur))
         ELSE SplitFrom(text, i + 1, Append(cur, text[i]), acc)

_text_to_lines(text) == SplitFrom(text, 1, << >>, << >>)

\* The text of a unit is a str; NonStr stands for a text that is a number or a
\* list, on which text.splitlines() raises.
NonStr == << "nonstr" >>
IsText(text) == text # NonStr

\* Mutant: a block of 2n + 1 lines that starts at the center line.
_window_block(lns, center_line, n) ==
    LET a == Max(0, center_line - 1)
        b == Min(Len(lns), center_line + 2 * n)
    IN  IF b > a
        THEN [ i \in 1 .. (b - a) |-> [ lineno |-> a + i, text |-> lns[a + i] ] ]
        ELSE << >>

_window(lns, center_line, n) ==
    LET a == Max(0, center_line - n - 1)
        b == Min(Len(lns), center_line + n)
    IN  IF b > a
        THEN [ i \in 1 .. (b - a) |-> [ lineno |-> a + i, text |-> lns[a + i] ] ]
        ELSE << >>

_center_from_index(text, idx) ==
    Cardinality({ p \in 1 .. Min(Len(text), Max(0, idx)) : text[p] = "NL" }) + 1


-----------------------------------------------------------------------------
(* Overlap ratio and dedup *)

\* The ratio inter/float(base) as the fraction num/den (den > 0).
_overlap_bad(a1, a2, b1, b2) ==
    LET inter == Max(0, Min(a2, b2) - Max(a1, b1) + 1)
        base  == a2 - a1 + 1
    IN  IF base > 0 THEN [ num |-> inter, den |-> base ]
                    ELSE [ num |-> 0, den |-> 1 ]

_overlap(a1, a2, b1, b2) ==
    LET inter == Max(0, Min(a2, b2) - Max(a1, b1) + 1)
        base  == Max(a2 - a1 + 1, b2 - b1 + 1)
    IN  IF base > 0 THEN [ num |-> inter, den |-> base ]
                    ELSE [ num |-> 0, den |-> 1 ]

\* ov >= threshold, the threshold given in tenths.
RatioGE(ov, tenths) == ov.num * 10 >= tenths * ov.den

\* The slice s of the list rejects the candidate new (slice.py:158-163).
Rejects(s, new) ==
    LET ov == _overlap(new.start_line, new.end_line, s.start_line, s.end_line)
    IN  \/ new.trigger = s.trigger /\ RatioGE(ov, CFG.DEDUP_SAME)
        \/ RatioGE(ov, CFG.DEDUP_DIFF)

\* Mutant: the candidate is compared with the most recent slice only.
_insert_dedup_last(sl, new) ==
    IF sl # << >> /\ Rejects(sl[Len(sl)], new)
    THEN [ ok |-> FALSE, slices |-> sl ]
    ELSE [ ok |-> TRUE, slices |-> Append(sl, new) ]

\* Returns the bool and the (possibly extended) list.
_insert_dedup(sl, new) ==
    IF \E i \in 1 .. Len(sl) : Rejects(sl[i], new)
    THEN [ ok |-> FALSE, slices |-> sl ]
    ELSE [ ok |-> TRUE, slices |-> Append(sl, new) ]

\* Mutant: the global cap is not checked before adding.
_try_add_slice_nototal(sl, item, tot) ==
    IF Len(sl) >= CFG.PER_UNIT_CAP
    THEN [ ok |-> FALSE, total |-> tot, slices |-> sl ]
    ELSE LET r == _insert_dedup(sl, item)
         IN  IF r.ok THEN [ ok |-> TRUE, total |-> tot + 1, slices |-> r.slices ]
                     ELSE [ ok |-> FALSE, total |-> tot, slices |-> sl ]

_try_add_slice(sl, item, tot) ==
    IF Len(sl) >= CFG.PER_UNIT_CAP \/ tot >= CFG.TOTAL_CAP
    THEN [ ok |-> FALSE, total |-> tot, slices |-> sl ]
    ELSE LET r == _insert_dedup(sl, item)
         IN  IF r.ok THEN [ ok |-> TRUE, total |-> tot + 1, slices |-> r.slices ]
                     ELSE [ ok |-> FALSE, total |-> tot, slices |-> sl ]

-----------------------------------------------------------------------------
(* Slice construction *)

\* text[a:b] of Python: a negative index counts from the end of the text, and
\* both ends are clipped to the text.
PyIndex(text, i) == IF i < 0 THEN Max(0, Len(text) + i) ELSE Min(Len(text), i)
PySlice(text, a, b) == SubSeq(text, PyIndex(text, a) + 1, PyIndex(text, b))

\* Mutant: the excerpt ends SNIPPET_CHARS after the match start.
_make_slice_fromstart(unit, lns, text, start_idx, end_idx, trigger, severity) ==
    LET center == _center_from_index(text, start_idx)
        sl     == _window(lns, center, CFG.WINDOW_LINES)
    IN  [ unit_id      |-> unit.unit_id,
          name         |-> unit.name,
          trigger      |-> trigger,
          severity     |-> severity,
          start_line   |-> IF sl # << >> THEN sl[1].lineno ELSE 1,
          end_line     |-> IF sl # << >> THEN sl[Len(sl)].lineno
                           ELSE Min(Len(lns), 2 * CFG.WINDOW_LINES),
          decomp_slice |-> sl,
          evidence     |-> PySlice(text,
                                   Max(0, start_idx - CFG.SNIPPET_CHARS),
                                   Min(Len(text), start_idx + CFG.SNIPPET_CHARS)) ]

_make_slice(unit, lns, text, start_idx, end_idx, trigger, severity) ==
    LET center == _center_from_index(text, start_idx)
        sl     == _window(lns, center, CFG.WINDOW_LINES)
    IN  [ unit_id      |-> unit.unit_id,
          name         |-> unit.name,
          trigger      |-> trigger,
          severity     |-> severity,
          start_line   |-> IF sl # << >> THEN sl[1].lineno ELSE 1,
          end_line     |-> IF sl # << >> THEN sl[Len(sl)].lineno
                           ELSE Min(Len(lns), 2 * CFG.WINDOW_LINES),
          decomp_slice |-> sl,
          evidence     |-> PySlice(text,
                                   Max(0, start_idx - CFG.SNIPPET_CHARS),
                                   Min(Len(text), end_idx + CFG.SNIPPET_CHARS)) ]

-----------------------------------------------------------------------------
(* Gates and policies *)

\* Mutant: the allowlist is never consulted.
_per_match_allowlisted_off(trigger, snippet) == FALSE

\* rx.search(snippet) for the alternative p of a compiled alternation: "("
\* opens a group whose first alternative is empty, which is found in every
\* snippet; ")" and "x)" are the later alternatives of such a group; any other
\* pattern is a literal, found if it occurs in the snippet.
Opens(p) == p = "("
Closes(p) == p \in {")", "x)"}
AltFound(p, snippet) == Opens(p) \/ (~ Closes(p) /\ p \in snippet)

_per_match_allowlisted(trigger, snippet) ==
    /\ trigger \in DOMAIN ALLOWLIST_RX
    /\ \E i \in 1 .. Len(ALLOWLIST_RX[trigger]) :
          AltFound(ALLOWLIST_RX[trigger][i], snippet)

\* Mutant: pe_high no longer requires both PE triggers or the mid count.
_severity_policy_loose(found_high_keys, mid_cat_count) ==
    [ strong_high |-> \E i \in 1 .. Len(STRONG_KEYS) :
                          STRONG_KEYS[i] \in found_high_keys,
      pe_high     |-> \E i \in 1 .. Len(PE_KEYS) : PE_KEYS[i] \in found_high_keys ]

\* Mutant: strong_high counts only the strong-high matches that the allowlist
\* lets through.
_severity_policy_gated(found_high_keys, mid_cat_count) ==
    LET passes(k) == \E i \in DOMAIN units[ui].hits[k] :
                         \/ k \notin DOMAIN ALLOWLIST_RX
                         \/ \A j \in DOMAIN ALLOWLIST_RX[k] :
                                ALLOWLIST_RX[k][j] \notin units[ui].hits[k][i].frag
        pe_flags  == \E i \in 1 .. Len(PE_KEYS) : PE_KEYS[i] \in found_high_keys
    IN  [ strong_high |-> \E i \in 1 .. Len(STRONG_KEYS) :
                              /\ STRONG_KEYS[i] \in found_high_keys
                              /\ passes(STRONG_KEYS[i]),
          pe_high     |-> /\ pe_flags
                          /\ \/ Range(PE_KEYS) \subseteq found_high_keys
                             \/ mid_cat_count >= CFG.PE_PROMOTE_WITH_MID ]

_severity_policy(found_high_keys, mid_cat_count) ==
    LET strong_high == \E i \in 1 .. Len(STRONG_KEYS) :
                           STRONG_KEYS[i] \in found_high_keys
        pe_flags    == \E i \in 1 .. Len(PE_KEYS) : PE_KEYS[i] \in found_high_keys
    IN  [ strong_high |-> strong_high,
          pe_high     |-> /\ pe_flags
                          /\ \/ Range(PE_KEYS) \subseteq found_high_keys
                             \/ mid_cat_count >= CFG.PE_PROMOTE_WITH_MID ]

\* Mutant: every indirect_call match has context.
_context_ok_always(lns, center_line, radius) == TRUE

\* A dangerous-API token occurs in lines[a:b], a slice by Python's index
\* rules; main sets a radius of at least 1 (slice.py:450), for which b > 0.
_context_ok(lns, center_line, radius) ==
    LET a   == Max(0, center_line - radius - 1)
        b   == Min(Len(lns), center_line + radius)
        seg == PySlice(lns, a, b)
    IN  \E i \in 1 .. Len(seg) : \E j \in 1 .. Len(seg[i]) : seg[i][j] = "T"

\* Mutant: the cap is compared with <= instead of <.
_under_trigger_cap_le(cnt, trigger, cap) == Get(cnt, trigger, 0) <= cap

_under_trigger_cap(cnt, trigger, cap) == Get(cnt, trigger, 0) < cap

-----------------------------------------------------------------------------
(* Match collection *)

\* list.sort(key=lambda x: x[0]): stable insertion by start offset.
RECURSIVE InsertByStart(_, _)
InsertByStart(sorted, x) ==
    IF sorted = << >> THEN << x >>
    ELSE IF sorted[Len(sorted)].s <= x.s THEN Append(sorted, x)
    ELSE Append(InsertByStart(SubSeq(sorted, 1, Len(sorted) - 1), x),
                sorted[Len(sorted)])

RECURSIVE SortByStart(_)
SortByStart(q) ==
    IF q = << >> THEN << >>
    ELSE InsertByStart(SortByStart(SubSeq(q, 1, Len(q) - 1)), q[Len(q)])

\* The loop without the comparison with the last kept hit.
UniqAdjacent_none(q) == q

\* The uniq loop of slice.py:239-242: drops a hit equal in (s, e) to the last kept.
RECURSIVE UniqAdjacent(_)
UniqAdjacent(q) ==
    IF Len(q) <= 1 THEN q
    ELSE LET r == UniqAdjacent(SubSeq(q, 1, Len(q) - 1))
             x == q[Len(q)]
         IN  IF r[Len(r)].s = x.s /\ r[Len(r)].e = x.e THEN r ELSE Append(r, x)

\* unit.hits[k] is what rx.finditer(text) yields for trigger k, unit.b64_concat
\* what _find_b64_concat_mapped(text) returns. The loop of slice.py:228 runs
\* over the keys RX_MID still has; b64_arr is built from BASE64_BLOB_RX
\* whether or not RX_MID has the key b64_blob.
_collect_matches(unit) ==
    LET b64_arr == unit.hits["b64_blob"] \o unit.b64_concat
        midKeys == { k \in RX_MID \ {"b64_blob"} : unit.hits[k] # << >> }
                     \cup (IF b64_arr # << >> THEN {"b64_blob"} ELSE {})
    IN  [ high |-> [ k \in { k \in Range(RX_HIGH_KEYS) : unit.hits[k] # << >> }
                       |-> unit.hits[k] ],
          mid  |-> [ k \in midKeys |->
                       IF k = "b64_blob" THEN UniqAdjacent(SortByStart(b64_arr))
                                         ELSE unit.hits[k] ] ]

-----------------------------------------------------------------------------
(* Unit loading *)

\* A source is [kind, file, form, items]. kind "json": file is "missing" (open
\* raises), "invalid" (json.load raises) or "ok"; form tells the JSON value: a
\* mapping with a list under the key "units" or "functions", a mapping with
\* such a key and a number or null under it ("nolist"), a mapping with a text
\* of its own ("text"), a list ("list"), a mapping with none of these keys or
\* a string without the words units and functions ("other"), a string with
\* one of them ("word"), a number or null ("scalar"). kind "dir": items are
\* the files in the order os.walk yields them.
\* An item is [t, unit, uid, name]. unit holds text and matches; uid is the
\* string under unit_id or func_addr and name the value under name or
\* func_name, 0 when the key is absent. t tells the JSON value:
\*   "unit"      an object whose text is a string
\*   "linelist"  an object whose text is a list of strings
\*   "emptytext" an object whose text is ""
\*   "notext"    an object without text, or with a number as text
\*   "listtext"  an object whose text is a list holding a number
\*   "numname"   an object with a string text and a number as name
\*   "badparts"  an object with decomp_slice or slices that hold no objects
\*   "scalar"    a number, null or a string without the words units, functions
\*   "word"      the string "units" or "functions"
\* and for a file of a directory "unit" (read), "skipped" (no source
\* extension) or "unreadable" (open or read raises), name being the file name.
\* The path of a file is its position in the listing, that of a JSON file 0.

\* Identifiers and names: a string or a number read from the file, the digest
\* sha1(name + text[:64]) (the texts are shorter than 64 characters, name 0 is
\* the empty string; different arguments give different digests), "u" + str(i),
\* the digest of a path, and a path.
NoContent == [ text |-> << >>, hits |-> [ k \in AllKeys |-> << >> ],
               b64_concat |-> << >>, fault |-> FALSE ]
Content(u) == [ text |-> u.text, hits |-> u.hits,
                b64_concat |-> u.b64_concat, fault |-> u.fault ]
StrId(n) == [ tag |-> "str", n |-> n, of |-> NoContent ]
NumId(n) == [ tag |-> "num", n |-> n, of |-> NoContent ]
Sha1(name, u) == [ tag |-> "sha1", n |-> name, of |-> Content(u) ]
UId(i) == [ tag |-> "u", n |-> i, of |-> NoContent ]
Sha1Path(p) == [ tag |-> "sha1path", n |-> p, of |-> NoContent ]
Path(p) == [ tag |-> "path", n |-> p, of |-> NoContent ]

Loaded(uid, name, c) ==
    [ unit_id |-> uid, name |-> name, text |-> c.text, hits |-> c.hits,
      b64_concat |-> c.b64_concat, fault |-> c.fault ]

\* What the loop body of a form does with an item: it appends a unit, goes on
\* to the next item, or raises.
Fate(form, it) ==
    CASE it.t = "unit"      -> "keep"
      [] it.t = "linelist"  -> IF form = "functions" THEN "skip" ELSE "keep"
      [] it.t = "emptytext" -> IF form = "list" THEN "keep" ELSE "skip"
      [] it.t = "notext"    -> "skip"
      [] it.t = "listtext"  -> IF form = "functions" THEN "skip" ELSE "raise"
      [] it.t = "numname"   -> IF form = "list" \/ it.uid # 0 THEN "keep" ELSE "raise"
      [] it.t = "badparts"  -> IF form = "functions" THEN "raise" ELSE "skip"
      [] it.t = "scalar"    -> IF form = "list" THEN "skip" ELSE "raise"
      [] it.t = "word"      -> "raise"

\* name of slice.py:106, 121 and 130, uid being the unit_id just computed.
NameOf(it, uid) ==
    IF it.name = 0 THEN uid
    ELSE IF it.t = "numname" THEN NumId(it.name) ELSE StrId(it.name)

\* The unit appended for an item, i units having been appended before it.
UnitOf_json(form, it, i) ==
    LET c   == IF it.t = "emptytext" THEN NoContent ELSE Content(it.unit)
        uid == IF form = "list" THEN UId(i)
               ELSE IF it.uid # 0 THEN StrId(it.uid)
               ELSE Sha1(it.name, c)
    IN  Loaded(uid, NameOf(it, uid), c)

\* units after the loop over the items from i on, acc being units before it.
RECURSIVE UnitsOf(_, _, _, _)
UnitsOf(form, items, i, acc) ==
    IF i > Len(items) THEN acc
    ELSE UnitsOf(form, items, i + 1,
                 IF Fate(form, items[i]) = "keep"
                 THEN Append(acc, UnitOf_json(form, items[i], Len(acc)))
                 ELSE acc)

\* The units and the read_fail entries of slice.py:78-89 from file i on.
RECURSIVE DirUnits(_, _)
DirUnits(items, i) ==
    IF i > Len(items) THEN << >>
    ELSE (IF items[i].t = "unit"
          THEN << Loaded(Sha1Path(i), StrId(items[i].name), Content(items[i].unit)) >>
          ELSE << >>) \o DirUnits(items, i + 1)

RECURSIVE ReadFails(_, _)
ReadFails(items, i) ==
    IF i > Len(items) THEN << >>
    ELSE (IF items[i].t = "unreadable" THEN << << "read_fail", Path(i) >> >> ELSE << >>)
             \o ReadFails(items, i + 1)

_load_dir(src) ==
    [ units |-> DirUnits(src.items, 1), errs |-> ReadFails(src.items, 1) ]

\* The exception handlers of slice.py:96-98 and 135-137.
JsonFail == [ units |-> << >>, errs |-> << << "json_fail", Path(0) >> >> ]
JsonParse == [ units |-> << >>, errs |-> << << "json_parse", Path(0) >> >> ]

\* slice.py:128-129: the mapping's own text is taken as it is, str or not; an
\* empty text is no text.
OwnText(it) ==
    IF it.t = "emptytext" THEN << >>
    ELSE << Loaded(UId(0), NameOf(it, UId(0)),
                   IF it.t \in {"unit", "numname"} THEN Content(it.unit)
                   ELSE [ NoContent EXCEPT !.text = NonStr ]) >>

_load_json(src) ==
    IF src.file # "ok" THEN JsonFail
    ELSE IF src.form \in {"units", "functions", "list"}
    THEN IF \E i \in DOMAIN src.items : Fate(src.form, src.items[i]) = "raise"
         THEN JsonParse
         ELSE [ units |-> UnitsOf(src.form, src.items, 1, << >>), errs |-> << >> ]
    ELSE IF src.form = "text"
    THEN [ units |-> OwnText(src.items[1]), errs |-> << >> ]
    ELSE IF src.form \in {"nolist", "word", "scalar"} THEN JsonParse
    ELSE [ units |-> << >>, errs |-> << >> ]

-----------------------------------------------------------------------------
(* Allowlist loading *)

\* An override source is [kind, obj]: kind "none" (no --allowlist), "unreadable"
\* (open raises), "invalid_json" (json.load raises), "notmapping" (a JSON
\* value without items()) or
\* "mapping"; obj maps keys to [islist, items], an item being a JSON string
\* Str(s), possibly empty, or a JSON number Num(n).
Str(s) == [ t |-> "str", v |-> s ]
Num(n) == [ t |-> "num", v |-> n ]
IsStr(x) == x.t = "str"

\* re.compile("|".join(v)): the joined alternation compiles when its
\* parentheses balance, "(" opening a group and ")" or "x)" closing one; the
\* depth after the patterns from i on, or -1 when a group is closed that was
\* not opened.
RECURSIVE Depth(_, _, _)
Depth(v, i, d) ==
    IF i > Len(v) THEN d
    ELSE IF Opens(v[i]) THEN Depth(v, i + 1, d + 1)
    ELSE IF Closes(v[i]) THEN IF d = 0 THEN -1 ELSE Depth(v, i + 1, d - 1)
    ELSE Depth(v, i + 1, d)
Compiles(v) == Depth(v, 1, 0) = 0

\* keep of slice.py:70, as the strings themselves.
Keep(items) ==
    LET kept == SelectSeq(items, LAMBDA x : IsStr(x) /\ x.v # "")
    IN  [ i \in 1 .. Len(kept) |-> kept[i].v ]

Merged(obj) ==
    [ k \in { k \in DOMAIN obj : obj[k].islist } |->
        Get(DEFAULT_ALLOW, k, << >>) \o Keep(obj[k].items) ]

_load_allowlist(cur, src) ==
    IF src.kind # "mapping" THEN cur
    ELSE LET merged == Merged(src.obj)
             kept   == { k \in DOMAIN merged : merged[k] # << >> }
         IN  IF \E k \in kept : ~ Compiles(merged[k])
             THEN cur
             ELSE [ k \in kept |-> merged[k] ]

-----------------------------------------------------------------------------
(* main and process_units as a state machine *)

\* The first index >= i of a key of the order that has matches: the keys
\* without matches are passed over (slice.py:348, 365, 383).
RECURSIVE NextKey(_, _, _)
NextKey(order, matches, i) ==
    IF i > Len(order) \/ order[i] \in DOMAIN matches THEN i
    ELSE NextKey(order, matches, i + 1)

NoCnt == [ k \in {} |-> 0 ]
NoFlags == [ strong_high |-> FALSE, pe_high |-> FALSE ]
NoMatches == [ k \in {} |-> << >> ]

CurUnit == units[ui]

\* The loop condition of slice.py:347, 350, 382 and 385.
CapHit == total >= CFG.TOTAL_CAP \/ Len(slices) >= CFG.PER_UNIT_CAP

Bump(cnt, k) == [ x \in DOMAIN cnt \cup {k} |-> IF x = k THEN Get(cnt, k, 0) + 1
                                                  ELSE cnt[x] ]

\* Mutant: an insertion that puts a slice before those of equal start_line.
RECURSIVE InsertByLine_before(_, _)
InsertByLine_before(sorted, x) ==
    IF sorted = << >> THEN << x >>
    ELSE IF sorted[Len(sorted)].start_line < x.start_line THEN Append(sorted, x)
    ELSE Append(InsertByLine_before(SubSeq(sorted, 1, Len(sorted) - 1), x),
                sorted[Len(sorted)])

\* slices.sort(key=lambda x: x["start_line"]): stable.
RECURSIVE InsertByLine(_, _)
InsertByLine(sorted, x) ==
    IF sorted = << >> THEN << x >>
    ELSE IF sorted[Len(sorted)].start_line <= x.start_line THEN Append(sorted, x)
    ELSE Append(InsertByLine(SubSeq(sorted, 1, Len(sorted) - 1), x),
                sorted[Len(sorted)])

\* Mutant: the slices are left in the order of acceptance.
SortByLine_none(q) == q

RECURSIVE SortByLine(_)
SortByLine(q) ==
    IF q = << >> THEN << >>
    ELSE InsertByLine(SortByLine(SubSeq(q, 1, Len(q) - 1)), q[Len(q)])

\* Mutant: the whitelist does not filter the strong-high key list.
StrongKeep_all == STRONG_MID_ORDER

\* keep of slice.py:362.
StrongKeep ==
    SelectSeq(STRONG_MID_ORDER,
              LAMBDA k : k \in Range(CFG.MID_WHITELIST_STRONG))

\* Mutant: the quota ignores the configured minimum.
StrongQuota_budget == mid_budget

\* Mutant: the quota stops one slice short.
StrongQuota_short == Min(CFG.MID_MIN_WHEN_STRONG_HIGH, mid_budget) - 1

\* min(CFG["MID_MIN_WHEN_STRONG_HIGH"], mid_budget) of slice.py:367 and 379.
StrongQuota == Min(CFG.MID_MIN_WHEN_STRONG_HIGH, mid_budget)

HighSeverity(key) ==
    IF \/ key \in Range(STRONG_KEYS)
       \/ key \in Range(PE_KEYS) /\ sev_flags.pe_high
    THEN "high" ELSE "mid"

CtxGated(key, m) ==
    /\ key = "indirect_call"
    /\ CFG.INDIRECT_CONTEXT_ONLY
    /\ ~ _context_ok(lines, _center_from_index(CurUnit.text, m.s), CFG.CONTEXT_RADIUS)

unitLocals == << lines, high_matches, mid_matches, sev_flags, slices,
                 per_trigger_cnt, ki, mi, mid_budget, added >>
globals == << CFG, ALLOWLIST_RX, override, source, RX_MID, disable_mid, units, fn >>

\* main, slice.py:457-463: the triggers named with --disable-mid are deleted
\* from RX_MID, then _load_allowlist(args.allowlist).
LoadAllowlist ==
    /\ pc = "main"
    /\ RX_MID' = RX_MID \ disable_mid
    /\ ALLOWLIST_RX' = _load_allowlist(ALLOWLIST_RX, override)
    /\ pc' = "load"
    /\ UNCHANGED << CFG, override, source, disable_mid, units, fn, errors, summary,
                    out_units, out_pos, total, ui, unitLocals >>

\* main, slice.py:465-471: errs = [], the units are loaded from the directory
\* or the JSON file, and process_units is called with summary = {"errors": errs}.
LoadUnits ==
    /\ pc = "load"
    /\ LET r == IF source.kind = "dir" THEN _load_dir(source) ELSE _load_json(source)
       IN  /\ units' = r.units
           /\ errors' = r.errs
    /\ pc' = "loop"
    /\ UNCHANGED << CFG, ALLOWLIST_RX, override, source, RX_MID, disable_mid, fn,
                    summary, out_units, out_pos, total, ui, unitLocals >>

\* slice.py:334: the batch loop stops at the global cap.
BreakTotalCap ==
    /\ pc = "loop" /\ ui <= Len(units)
    /\ total >= CFG.TOTAL_CAP
    /\ summary' = [ units |-> Len(out_units), total_slices |-> total ]
    /\ pc' = "done"
    /\ UNCHANGED << globals, errors, out_units, out_pos, total, ui, unitLocals >>

\* slice.py:400-401: the loop is exhausted.
Return ==
    /\ pc = "loop" /\ ui > Len(units)
    /\ summary' = [ units |-> Len(out_units), total_slices |-> total ]
    /\ pc' = "done"
    /\ UNCHANGED << globals, errors, out_units, out_pos, total, ui, unitLocals >>

\* Mutant: the exception ends the batch.
ScanFail_abort ==
    /\ pc = "loop" /\ ui <= Len(units)
    /\ total < CFG.TOTAL_CAP
    /\ IsText(CurUnit.text)
    /\ CurUnit.fault
    /\ errors' = Append(errors, << "scan_fail", CurUnit.name >>)
    /\ pc' = "done"
    /\ UNCHANGED << globals, summary, out_units, out_pos, total, ui, unitLocals >>

\* slice.py:338-340: _collect_matches raised.
ScanFail ==
    /\ pc = "loop" /\ ui <= Len(units)
    /\ total < CFG.TOTAL_CAP
    /\ IsText(CurUnit.text)
    /\ CurUnit.fault
    /\ errors' = Append(errors, << "scan_fail", CurUnit.name >>)
    /\ ui' = ui + 1
    /\ UNCHANGED << globals, summary, out_units, out_pos, total, pc, unitLocals >>

\* slice.py:335: the text of the unit is no str, _text_to_lines raises outside
\* the try of line 336 and the exception leaves process_units and main.
TextFail ==
    /\ pc = "loop" /\ ui <= Len(units)
    /\ total < CFG.TOTAL_CAP
    /\ ~ IsText(CurUnit.text)
    /\ pc' = "raised"
    /\ UNCHANGED << globals, errors, summary, out_units, out_pos, total, ui, unitLocals >>

\* slice.py:335-345.
BeginUnit ==
    /\ pc = "loop" /\ ui <= Len(units)
    /\ total < CFG.TOTAL_CAP
    /\ IsText(CurUnit.text)
    /\ ~ CurUnit.fault
    /\ LET cm == _collect_matches(CurUnit)
       IN  /\ lines' = _text_to_lines(CurUnit.text)
           /\ high_matches' = cm.high
           /\ mid_matches' = cm.mid
           /\ sev_flags' = _severity_policy(DOMAIN cm.high, Cardinality(DOMAIN cm.mid))
           /\ ki' = NextKey(HIGH_ORDER, cm.high, 1)
    /\ slices' = << >>
    /\ per_trigger_cnt' = NoCnt
    /\ mi' = 1
    /\ pc' = "high"
    /\ UNCHANGED << globals, errors, summary, out_units, out_pos, total, ui, mid_budget, added >>

\* The effect of lines 355-358, 374-378 and 393-396 on slices, total and the
\* per-trigger counters; ok is the bool _try_add_slice returned.
AddResult(key, m, sev) ==
    _try_add_slice(slices,
                   _make_slice(CurUnit, lines, CurUnit.text, m.s, m.e, key, sev),
                   total)

\* Mutant: the per-trigger count rises for every candidate that reaches
\* _try_add_slice.
Accept_always(r, key) ==
    /\ slices' = r.slices
    /\ total' = r.total
    /\ per_trigger_cnt' = Bump(per_trigger_cnt, key)

Accept(r, key) ==
    /\ slices' = r.slices
    /\ total' = r.total
    /\ per_trigger_cnt' = IF r.ok THEN Bump(per_trigger_cnt, key) ELSE per_trigger_cnt

frame == << globals, errors, summary, out_units, out_pos, ui, lines, high_matches,
            mid_matches, sev_flags >>

\* slice.py:359-363 and 380: the mid budget and the choice of the mid path,
\* taken when the high key loop is left.
EnterMid ==
    /\ mid_budget' = Max(0, CFG.PER_UNIT_CAP - Len(slices))
    /\ added' = 0
    /\ mi' = 1
    /\ IF mid_budget' > 0
       THEN IF sev_flags.strong_high /\ CFG.SKIP_MID_WHEN_STRONG_HIGH
            THEN pc' = "mid_strong" /\ ki' = NextKey(StrongKeep, mid_matches, 1)
            ELSE pc' = "mid_normal" /\ ki' = NextKey(MID_ORDER, mid_matches, 1)
       ELSE pc' = "unit_end" /\ ki' = 1
    /\ UNCHANGED << frame, slices, total, per_trigger_cnt >>

(* High phase, slice.py:346-358 *)

HighKey == HIGH_ORDER[ki]
HighAt == pc = "high" /\ ki <= Len(HIGH_ORDER)
HighCand == HighAt /\ HighKey \in DOMAIN high_matches
                   /\ mi <= Len(high_matches[HighKey]) /\ ~ CapHit

\* slice.py:347: break out of the key loop.
HighBreak ==
    /\ HighAt /\ mi = 1 /\ CapHit
    /\ EnterMid

\* slice.py:350: break out of the match loop.
HighInnerBreak ==
    /\ HighAt /\ HighKey \in DOMAIN high_matches
    /\ 1 < mi /\ mi <= Len(high_matches[HighKey]) /\ CapHit
    /\ ki' = NextKey(HIGH_ORDER, high_matches, ki + 1) /\ mi' = 1
    /\ UNCHANGED << frame, slices, total, per_trigger_cnt, pc, mid_budget, added >>

\* slice.py:349: the matches of the key are exhausted.
HighInnerEnd ==
    /\ HighAt /\ HighKey \in DOMAIN high_matches
    /\ mi > Len(high_matches[HighKey])
    /\ ki' = NextKey(HIGH_ORDER, high_matches, ki + 1) /\ mi' = 1
    /\ UNCHANGED << frame, slices, total, per_trigger_cnt, pc, mid_budget, added >>

\* slice.py:351: the fragment is allowlisted.
HighAllowlisted ==
    /\ HighCand
    /\ _per_match_allowlisted(HighKey, high_matches[HighKey][mi].frag)
    /\ mi' = mi + 1
    /\ UNCHANGED << frame, slices, total, per_trigger_cnt, pc, ki, mid_budget, added >>

\* slice.py:352-353: the trigger has reached PER_TRIGGER_CAP.
HighTriggerCapped ==
    /\ HighCand
    /\ ~ _per_match_allowlisted(HighKey, high_matches[HighKey][mi].frag)
    /\ ~ _under_trigger_cap(per_trigger_cnt, HighKey, CFG.PER_TRIGGER_CAP)
    /\ mi' = mi + 1
    /\ UNCHANGED << frame, slices, total, per_trigger_cnt, pc, ki, mid_budget, added >>

\* slice.py:354-358.
HighTryAdd ==
    /\ HighCand
    /\ ~ _per_match_allowlisted(HighKey, high_matches[HighKey][mi].frag)
    /\ _under_trigger_cap(per_trigger_cnt, HighKey, CFG.PER_TRIGGER_CAP)
    /\ Accept(AddResult(HighKey, high_matches[HighKey][mi], HighSeverity(HighKey)),
              HighKey)
    /\ mi' = mi + 1
    /\ UNCHANGED << frame, pc, ki, mid_budget, added >>

\* The key loop of slice.py:346 is exhausted.
HighEnd ==
    /\ pc = "high" /\ ki > Len(HIGH_ORDER)
    /\ EnterMid

(* Strong-high mid path, slice.py:364-379 *)

StrongKey == StrongKeep[ki]
StrongAt == pc = "mid_strong" /\ ki <= Len(StrongKeep)
StrongCand == StrongAt /\ StrongKey \in DOMAIN mid_matches
                       /\ mi <= Len(mid_matches[StrongKey])
                       /\ added < StrongQuota

\* slice.py:367 then 379: the quota is used up, both loops are left.
StrongQuotaBreak ==
    /\ StrongAt /\ StrongKey \in DOMAIN mid_matches
    /\ added >= StrongQuota
    /\ pc' = "unit_end"
    /\ UNCHANGED << frame, slices, total, per_trigger_cnt, ki, mi, mid_budget, added >>

\* slice.py:366 exhausted with quota left (379 does not break): next key.
StrongInnerEnd ==
    /\ StrongAt /\ StrongKey \in DOMAIN mid_matches
    /\ mi > Len(mid_matches[StrongKey])
    /\ added < StrongQuota
    /\ ki' = NextKey(StrongKeep, mid_matches, ki + 1) /\ mi' = 1
    /\ UNCHANGED << frame, slices, total, per_trigger_cnt, pc, mid_budget, added >>

\* slice.py:368-371.
StrongCtxReject ==
    /\ StrongCand
    /\ CtxGated(StrongKey, mid_matches[StrongKey][mi])
    /\ mi' = mi + 1
    /\ UNCHANGED << frame, slices, total, per_trigger_cnt, pc, ki, mid_budget, added >>

\* slice.py:372-373.
StrongTriggerCapped ==
    /\ StrongCand
    /\ ~ CtxGated(StrongKey, mid_matches[StrongKey][mi])
    /\ ~ _under_trigger_cap(per_trigger_cnt, StrongKey, CFG.PER_TRIGGER_CAP)
    /\ mi' = mi + 1
    /\ UNCHANGED << frame, slices, total, per_trigger_cnt, pc, ki, mid_budget, added >>

\* slice.py:374-378.
StrongTryAdd ==
    /\ StrongCand
    /\ ~ CtxGated(StrongKey, mid_matches[StrongKey][mi])
    /\ _under_trigger_cap(per_trigger_cnt, StrongKey, CFG.PER_TRIGGER_CAP)
    /\ LET r == AddResult(StrongKey, mid_matches[StrongKey][mi], "mid")
       IN  /\ Accept(r, StrongKey)
           /\ added' = IF r.ok THEN added + 1 ELSE added
    /\ mi' = mi + 1
    /\ UNCHANGED << frame, pc, ki, mid_budget >>

\* The key loop of slice.py:364 is exhausted.
StrongEnd ==
    /\ pc = "mid_strong" /\ ki > Len(StrongKeep)
    /\ pc' = "unit_end"
    /\ UNCHANGED << frame, slices, total, per_trigger_cnt, ki, mi, mid_budget, added >>

(* Normal mid path, slice.py:381-396 *)

MidKey == MID_ORDER[ki]
MidAt == pc = "mid_normal" /\ ki <= Len(MID_ORDER)
MidCand == MidAt /\ MidKey \in DOMAIN mid_matches
                 /\ mi <= Len(mid_matches[MidKey]) /\ ~ CapHit

\* slice.py:382.
MidBreak ==
    /\ MidAt /\ mi = 1 /\ CapHit
    /\ pc' = "unit_end"
    /\ UNCHANGED << frame, slices, total, per_trigger_cnt, ki, mi, mid_budget, added >>

\* slice.py:385.
MidInnerBreak ==
    /\ MidAt /\ MidKey \in DOMAIN mid_matches
    /\ 1 < mi /\ mi <= Len(mid_matches[MidKey]) /\ CapHit
    /\ ki' = NextKey(MID_ORDER, mid_matches, ki + 1) /\ mi' = 1
    /\ UNCHANGED << frame, slices, total, per_trigger_cnt, pc, mid_budget, added >>

\* slice.py:384 exhausted.
MidInnerEnd ==
    /\ MidAt /\ MidKey \in DOMAIN mid_matches
    /\ mi > Len(mid_matches[MidKey])
    /\ ki' = NextKey(MID_ORDER, mid_matches, ki + 1) /\ mi' = 1
    /\ UNCHANGED << frame, slices, total, per_trigger_cnt, pc, mid_budget, added >>

\* slice.py:387-390.
MidCtxReject ==
    /\ MidCand
    /\ CtxGated(MidKey, mid_matches[MidKey][mi])
    /\ mi' = mi + 1
    /\ UNCHANGED << frame, slices, total, per_trigger_cnt, pc, ki, mid_budget, added >>

\* slice.py:391-392.
MidTriggerCapped ==
    /\ MidCand
    /\ ~ CtxGated(MidKey, mid_matches[MidKey][mi])
    /\ ~ _under_trigger_cap(per_trigger_cnt, MidKey, CFG.PER_TRIGGER_CAP)
    /\ mi' = mi + 1
    /\ UNCHANGED << frame, slices, total, per_trigger_cnt, pc, ki, mid_budget, added >>

\* slice.py:393-396.
MidTryAdd ==
    /\ MidCand
    /\ ~ CtxGated(MidKey, mid_matches[MidKey][mi])
    /\ _under_trigger_cap(per_trigger_cnt, MidKey, CFG.PER_TRIGGER_CAP)
    /\ Accept(AddResult(MidKey, mid_matches[MidKey][mi], "mid"), MidKey)
    /\ mi' = mi + 1
    /\ UNCHANGED << frame, pc, ki, mid_budget, added >>

\* The key loop of slice.py:381 is exhausted.
MidEnd ==
    /\ pc = "mid_normal" /\ ki > Len(MID_ORDER)
    /\ pc' = "unit_end"
    /\ UNCHANGED << frame, slices, total, per_trigger_cnt, ki, mi, mid_budget, added >>

\* slice.py:397-399, then the next unit.
\* Mutant: a unit is put out even when it has no slice.
FinishUnit_always ==
    /\ pc = "unit_end"
    /\ out_units' = Append(out_units, [ unit_id |-> CurUnit.unit_id,
                                        name    |-> CurUnit.name,
                                        slices  |-> SortByLine(slices) ])
    /\ out_pos' = Append(out_pos, ui)
    /\ ui' = ui + 1
    /\ pc' = "loop"
    /\ UNCHANGED << globals, errors, summary, total, unitLocals >>

FinishUnit ==
    /\ pc = "unit_end"
    /\ out_units' = IF slices # << >>
                    THEN Append(out_units, [ unit_id |-> CurUnit.unit_id,
                                             name    |-> CurUnit.name,
                                             slices  |-> SortByLine(slices) ])
                    ELSE out_units
    /\ out_pos' = IF slices # << >> THEN Append(out_pos, ui) ELSE out_pos
    /\ ui' = ui + 1
    /\ pc' = "loop"
    /\ UNCHANGED << globals, errors, summary, total, unitLocals >>

Next ==
    \/ LoadAllowlist \/ LoadUnits \/ BreakTotalCap \/ Return \/ TextFail
    \/ ScanFail \/ BeginUnit
    \/ HighBreak \/ HighInnerBreak \/ HighInnerEnd
    \/ HighAllowlisted \/ HighTriggerCapped \/ HighTryAdd \/ HighEnd
    \/ StrongQuotaBreak \/ StrongInnerEnd \/ StrongCtxReject
    \/ StrongTriggerCapped \/ StrongTryAdd \/ StrongEnd
    \/ MidBreak \/ MidInnerBreak \/ MidInnerEnd \/ MidCtxReject
    \/ MidTriggerCapped \/ MidTryAdd \/ MidEnd
    \/ FinishUnit

-----------------------------------------------------------------------------
(* Inputs *)

MaxPromote == 2     \* PE_PROMOTE_WITH_MID ranges up to MaxPromote
MaxLines == 3       \* lines of a unit text
MaxDedupLines == 5  \* lines of a unit text in the dedup family
MaxMatches == 3     \* matches of a unit
MaxUnits == 2       \* units of a batch
MaxCap == 2         \* PER_UNIT_CAP ranges over 0 .. MaxCap, PER_TRIGGER_CAP over 1 .. MaxCap
MaxTotal == 3       \* TOTAL_CAP ranges over 0 .. MaxTotal
MaxWindow == 2      \* WINDOW_LINES ranges over 0 .. MaxWindow
MaxMidMin == 2      \* MID_MIN_WHEN_STRONG_HIGH ranges over 0 .. MaxMidMin
Stride == 5         \* lines between two anchor lines of a scenario unit


\* A text of n one-character lines, each ended by a newline; line tl (if any)
\* holds a dangerous-API token, the others an ordinary character.
MkTextTok(n, tl) ==
    [ i \in 1 .. 2 * n |-> IF i % 2 = 0 THEN "NL"
                           ELSE IF i = 2 * tl - 1 THEN "T" ELSE "x" ]
MkText(n) == MkTextTok(n, 0)

\* The literal patterns occurring in a hit of trigger k that starts on line l:
\* reg_run hits alternate between CurrentVersion\Run and CurrentVersion\RunOnce.
FragOf(k, l) ==
    IF k = "reg_run"
    THEN IF l % 2 = 0 THEN {"currentversion", "run", "once"}
                      ELSE {"currentversion", "run"}
    ELSE IF k = "service_str" THEN {"services"} ELSE {}

\* A hit that starts with the first character of line l of MkText(n).
Hit(k, l) == [ s |-> 2 * (l - 1), e |-> 2 * (l - 1) + 1, frag |-> FragOf(k, l) ]

SetMax(S) == CHOOSE m \in S : \A x \in S : x <= m

RECURSIVE HitsOn(_, _)
HitsOn(k, L) ==
    IF L = {} THEN << >>
    ELSE Append(HitsOn(k, L \ {SetMax(L)}), Hit(k, SetMax(L)))

\* The unit of n lines, a token on line tl, whose hits are the placements P,
\* a set of <<key, line>>.
MkUnitTok(n, tl, P) ==
    [ unit_id |-> 0, name |-> 0, text |-> MkTextTok(n, tl),
      hits |-> [ k \in AllKeys |-> HitsOn(k, { l \in 1 .. n : << k, l >> \in P }) ],
      b64_concat |-> << >>, fault |-> FALSE ]
MkUnit(n, P) == MkUnitTok(n, 0, P)

FaultUnit == [ MkUnit(1, {}) EXCEPT !.fault = TRUE ]

Placements(K, n, m) == { P \in SUBSET (K \X (1 .. n)) : Cardinality(P) <= m }

UnitsOver(K, n, m) == { MkUnit(n, P) : P \in Placements(K, n, m) }

\* A batch whose unit i has the unit_id i and the name i in its file.
Named(b) == [ i \in DOMAIN b |-> [ b[i] EXCEPT !.unit_id = i, !.name = i ] ]

Single(U) == { Named(<< u >>) : u \in U }

NoOverride == [ kind |-> "none", obj |-> << >> ]

Item(t, u, uid, name) == [ t |-> t, unit |-> u, uid |-> uid, name |-> name ]
NoUnit == MkUnit(1, {})
JsonFile(file, form, items) ==
    [ kind |-> "json", file |-> file, form |-> form, items |-> items ]
Dir(items) == [ kind |-> "dir", file |-> "ok", form |-> "dir", items |-> items ]
\* The JSON file of a batch: unit i of the list under "units" has the
\* unit_id and the name the batch gives it.
FromBatch(b) ==
    JsonFile("ok", "units",
             [ i \in DOMAIN b |-> Item("unit", b[i], b[i].unit_id, b[i].name) ])
Compiled(allow) == allow

Cfg(w, u, t, g, skip, m, wl) ==
    [ DefaultCFG EXCEPT !.WINDOW_LINES = w, !.PER_UNIT_CAP = u,
                        !.PER_TRIGGER_CAP = t, !.TOTAL_CAP = g,
                        !.SKIP_MID_WHEN_STRONG_HIGH = skip,
                        !.MID_MIN_WHEN_STRONG_HIGH = m,
                        !.MID_WHITELIST_STRONG = wl ]

\* Caps family: every combination of small caps on batches of small units.
CapsCfgs ==
    { Cfg(0, u, t, g, TRUE, MaxMidMin, DefaultCFG.MID_WHITELIST_STRONG) :
        u \in 0 .. MaxCap, t \in 1 .. MaxCap, g \in 0 .. MaxTotal }
CapsUnits == UnitsOver({"service_str", "b64_blob"}, MaxLines - 1, MaxMatches)
                \cup {FaultUnit}
TailUnits == { FaultUnit, MkUnit(1, {<< "b64_blob", 1 >>}),
               MkUnit(2, {<< "service_str", 1 >>, << "b64_blob", 2 >>}) }
CapsBatches ==
    UNION { { Named(<< u >> \o b) : u \in CapsUnits, b \in [ 1 .. n -> TailUnits ] } :
            n \in 0 .. MaxUnits - 1 }

\* Dedup family: one unit, windows of 0 .. MaxWindow lines, default caps.
DedupCfgs ==
    { [ DefaultCFG EXCEPT !.WINDOW_LINES = w, !.SKIP_MID_WHEN_STRONG_HIGH = skip ] :
        w \in 0 .. MaxWindow, skip \in BOOLEAN }
DedupUnits ==
    UNION { UnitsOver({"service_str", "pe_embed", "b64_blob"}, n, MaxMatches) :
            n \in 1 .. MaxDedupLines }

\* Strong-high family: the quota, the whitelist and the per-unit cap vary.
StrongCfgs ==
    { Cfg(0, u, t, DefaultCFG.TOTAL_CAP, TRUE, m, wl) :
        u \in {0, 1, MaxCap, MaxCap + 1}, t \in {1, MaxCap}, m \in {0, 1, MaxMidMin},
        wl \in { DefaultCFG.MID_WHITELIST_STRONG, << "b64_blob", "cast_call" >> } }
StrongUnits ==
    UnitsOver({"service_str", "b64_blob", "anti_debug", "cast_call"},
              MaxLines, MaxMatches)

\* Allowlist family: overrides of the --allowlist file.
ListOf(items) == [ islist |-> TRUE, items |-> items ]
Mapping(obj) == [ kind |-> "mapping", obj |-> obj ]
Overrides ==
    { NoOverride,
      Mapping([ k \in {"reg_run"} |-> ListOf(<< Str("once") >>) ]),
      Mapping([ k \in {"service_str"} |-> ListOf(<< Str("services") >>) ]),
      Mapping([ k \in {"reg_run", "tasks_sched"} |->
                  IF k = "reg_run" THEN ListOf(<< Str("run"), Str("") >>)
                                   ELSE ListOf(<< Str("microsoft") >>) ]) }
\* Malformed override sources: a file that cannot be opened, text that is not
\* JSON, a JSON list, a value that is not a list, items that are not strings,
\* a pattern that does not compile, and patterns that compile only joined.
NotAList == [ islist |-> FALSE, items |-> << >> ]
MalformedOverrides ==
    { [ kind |-> "unreadable", obj |-> << >> ],
      [ kind |-> "invalid_json", obj |-> << >> ],
      [ kind |-> "notmapping", obj |-> << >> ],
      Mapping([ k \in {"reg_run"} |-> NotAList ]),
      Mapping([ k \in {"reg_run"} |-> ListOf(<< Num(1), Num(2) >>) ]),
      Mapping([ k \in {"service_str"} |-> ListOf(<< Num(1) >>) ]),
      Mapping([ k \in {"reg_run", "service_str"} |->
                  IF k = "reg_run" THEN ListOf(<< Str("once") >>) ELSE NotAList ]),
      Mapping([ k \in {"reg_run"} |-> ListOf(<< Str("(") >>) ]),
      Mapping([ k \in {"reg_run"} |-> ListOf(<< Str("x)"), Str("(") >>) ]),
      Mapping([ k \in {"reg_run"} |-> ListOf(<< Str("("), Str(")") >>) ]),
      Mapping([ k \in {"service_str"} |-> ListOf(<< Str("("), Str("x)") >>) ]) }
MalformedUnits == UnitsOver({"reg_run", "service_str"}, MaxLines - 1, MaxMatches)
AllowCfgs ==
    { Cfg(0, MaxCap, MaxCap, DefaultCFG.TOTAL_CAP, skip, MaxMidMin,
          DefaultCFG.MID_WHITELIST_STRONG) : skip \in BOOLEAN }
AllowUnits ==
    UnitsOver({"reg_run", "service_str", "b64_blob"}, MaxLines, MaxMatches)

\* Context family: the indirect_call gate, on or off, with a one-line radius.
CtxCfgs ==
    { [ Cfg(0, MaxCap, MaxCap, DefaultCFG.TOTAL_CAP, skip, MaxMidMin,
            << "b64_blob", "indirect_call" >>)
        EXCEPT !.INDIRECT_CONTEXT_ONLY = ctx, !.CONTEXT_RADIUS = 1 ] :
      skip \in BOOLEAN, ctx \in BOOLEAN }
CtxUnits ==
    { MkUnitTok(MaxLines, tl, P) :
        tl \in 0 .. MaxLines,
        P \in Placements({"service_str", "indirect_call"}, MaxLines, MaxMatches) }

\* Scenario family: the default configuration on a unit with one hit of
\* service_str and of five mid triggers, each on an anchor line; the unit has
\* one line, exactly one window of lines, or room for four windows apart; the
\* dangerous-API token is on the line of the indirect_call hit.
ScenarioCfgs == { DefaultCFG }
ScenarioLens == { 1, DefaultCFG.WINDOW_LINES + 1,
                  DefaultCFG.WINDOW_LINES + 1 + 3 * Stride }
ScenarioAnchors(n) == { l \in { 1 + i * Stride : i \in 0 .. 3 } : l <= n }
ScenarioUnits ==
    UNION { { MkUnitTok(n, ic, { << "service_str", sv >>, << "b64_blob", b >>,
                                 << "anti_debug", a >>, << "hex_array", h >>,
                                 << "indirect_call", ic >>, << "xor_assign", x >> }) :
                sv \in ScenarioAnchors(n), b \in ScenarioAnchors(n),
                a \in ScenarioAnchors(n), h \in ScenarioAnchors(n),
                ic \in { 1, SetMax(ScenarioAnchors(n)) },
                x \in { 1, SetMax(ScenarioAnchors(n)) } } :
            n \in ScenarioLens }

\* Disable family: --disable-mid names none, one or both of two mid triggers,
\* on units with a PE hit, so that the mid-category count decides pe_high.
DisableCfgs ==
    { [ DefaultCFG EXCEPT !.WINDOW_LINES = 0, !.PE_PROMOTE_WITH_MID = p ] :
        p \in 1 .. MaxPromote }
DisableSets == SUBSET {"b64_blob", "anti_debug"}
DisableUnits ==
    UnitsOver({"pe_embed", "b64_blob", "anti_debug"}, MaxLines - 1, MaxMatches)

\* Muted family: an override that allowlists every reg_run match, on units
\* that also hold a whitelisted and a non-whitelisted mid trigger.
MutedOverride == Mapping([ k \in {"reg_run"} |-> ListOf(<< Str("run") >>) ])
MutedUnits ==
    UnitsOver({"reg_run", "b64_blob", "cast_call"}, MaxLines - 1, MaxMatches)

\* Gap family: batches of MaxUnits + 1 units, some of which produce no slice,
\* under the default caps.
GapCfgs == { [ DefaultCFG EXCEPT !.WINDOW_LINES = 0 ] }
GapBatches ==
    { Named(b) : b \in [ 1 .. MaxUnits + 1 -> TailUnits \cup {MkUnit(1, {})} ] }

\* Loader family: missing and invalid JSON files, every form of JSON value
\* with items that are units, objects without text or scalars, and directories
\* with files that are read, skipped or unreadable.
LoaderUnits == { MkUnit(1, {<< "b64_blob", 1 >>}),
                 MkUnit(2, {<< "service_str", 1 >>, << "b64_blob", 2 >>}) }
\* Objects with and without identifier and name, so that two of a file have
\* the same unit_id or the same name, and the values that are no unit.
JsonItems ==
    { Item("unit", u, id[1], id[2]) :
        u \in LoaderUnits, id \in { << 0, 0 >>, << 0, 1 >>, << 1, 1 >> } }
        \cup { Item(t, MkUnit(1, {<< "b64_blob", 1 >>}), 0, 0) :
                 t \in { "linelist", "emptytext", "notext", "listtext",
                         "badparts", "scalar", "word" } }
        \cup { Item("numname", MkUnit(1, {<< "b64_blob", 1 >>}), uid, 1) : uid \in {0, 1} }
OwnTexts ==
    { Item(t, MkUnit(1, {<< "b64_blob", 1 >>}), 0, name) :
        t \in { "unit", "numname", "linelist", "listtext", "emptytext" },
        name \in {0, 1} } \ { Item("numname", MkUnit(1, {<< "b64_blob", 1 >>}), 0, 0) }
\* Files of a directory: two file names, so that files of different
\* directories have the same name.
DirItems ==
    { Item("unit", u, 0, name) : u \in LoaderUnits \cup {FaultUnit}, name \in {1, 2} }
        \cup { Item("skipped", NoUnit, 0, 1), Item("unreadable", NoUnit, 0, 1) }
ItemLists(S) == UNION { [ 1 .. n -> S ] : n \in 0 .. MaxUnits }
LoaderSources ==
    { JsonFile("missing", "other", << >>), JsonFile("invalid", "other", << >>) }
    \cup { JsonFile("ok", f, << >>) : f \in {"other", "scalar", "word", "nolist"} }
    \cup { JsonFile("ok", f, q) : f \in {"units", "functions", "list"},
                                  q \in ItemLists(JsonItems) }
    \cup { JsonFile("ok", "text", << it >>) : it \in OwnTexts }
    \cup { Dir(q) : q \in ItemLists(DirItems) }

InitMain(cfgs, ovs, sources, disables) ==
    /\ CFG \in cfgs
    /\ override \in ovs
    /\ disable_mid \in disables
    /\ RX_MID = Range(RX_MID_KEYS)
    /\ source \in sources
    /\ units = << >>
    /\ ALLOWLIST_RX = Compiled(DEFAULT_ALLOW)
    /\ errors = << >>
    /\ summary = [ k \in {} |-> 0 ]
    /\ out_units = << >>
    /\ out_pos = << >>
    /\ total = 0
    /\ pc = "main"
    /\ ui = 1
    /\ lines = << >>
    /\ high_matches = NoMatches
    /\ mid_matches = NoMatches
    /\ sev_flags = NoFlags
    /\ slices = << >>
    /\ per_trigger_cnt = NoCnt
    /\ ki = 1 /\ mi = 1
    /\ mid_budget = 0
    /\ added = 0
    /\ fn = << >>

\* The batches come from JSON files with the key "units".
InitArgs(cfgs, ovs, batches, disables) ==
    InitMain(cfgs, ovs, { FromBatch(b) : b \in batches }, disables)

\* No --disable-mid option.
InitWith(cfgs, ovs, batches) == InitArgs(cfgs, ovs, batches, {{}})

Init ==
    \/ InitWith(CapsCfgs, {NoOverride}, CapsBatches)
    \/ InitWith(DedupCfgs, {NoOverride}, Single(DedupUnits))
    \/ InitWith(StrongCfgs, {NoOverride}, Single(StrongUnits))
    \/ InitWith(AllowCfgs, Overrides, Single(AllowUnits))
    \/ InitWith(CtxCfgs, {NoOverride}, Single(CtxUnits))
    \/ InitWith(ScenarioCfgs, {NoOverride}, Single(ScenarioUnits))
    \/ InitWith(AllowCfgs, MalformedOverrides, Single(MalformedUnits))
    \/ InitWith(AllowCfgs, {MutedOverride}, Single(MutedUnits))
    \/ InitWith(GapCfgs, {NoOverride}, GapBatches)
    \/ InitArgs(DisableCfgs, {NoOverride}, Single(DisableUnits), DisableSets)
    \/ InitMain(GapCfgs, {NoOverride}, LoaderSources, {{}})

Spec == Init /\ [][Next]_vars

-----------------------------------------------------------------------------
(* Vocabulary of the properties *)

InUnit == pc \in {"high", "mid_strong", "mid_normal", "unit_end"}

\* The output units made from unit j of the batch, and the slices unit j has
\* produced so far.
OutOf(j) == { o \in DOMAIN out_units : out_pos[o] = j }
UnitSlices(j) ==
    IF OutOf(j) # {}
    THEN out_units[CHOOSE o \in OutOf(j) : TRUE].slices
    ELSE IF InUnit /\ ui = j THEN slices ELSE << >>

\* The scan_fail entries of the error list, and those the first n units of
\* the batch give when collecting matches is tried on each of them.
ScanFails == SelectSeq(errors, LAMBDA e : e[1] = "scan_fail")
FaultErrors(n) ==
    LET f == SelectSeq(SubSeq(units, 1, n), LAMBDA u : u.fault)
    IN  [ i \in DOMAIN f |-> << "scan_fail", f[i].name >> ]

IsHigh(t) == t \in Range(RX_HIGH_KEYS)
IsMid(t) == t \in Range(RX_MID_KEYS)
CountTrigger(sl, t) == Cardinality({ i \in DOMAIN sl : sl[i].trigger = t })
CountHigh(sl) == Cardinality({ i \in DOMAIN sl : IsHigh(sl[i].trigger) })
CountMid(sl) == Cardinality({ i \in DOMAIN sl : IsMid(sl[i].trigger) })
NumHits(u) == SumSeq([ i \in 1 .. Len(RX_HIGH_KEYS) |-> Len(u.hits[RX_HIGH_KEYS[i]]) ])
              + SumSeq([ i \in 1 .. Len(RX_MID_KEYS) |-> Len(u.hits[RX_MID_KEYS[i]]) ])

\* A strong-high trigger has a hit in the raw text of the unit.
UnitStrong(u) == \E k \in {"reg_run", "service_str", "tasks_sched", "inline_syscall"} :
                     u.hits[k] # << >>
Restricted(u) == UnitStrong(u) /\ CFG.SKIP_MID_WHEN_STRONG_HIGH

\* First and last line of the window of a hit that starts at offset s, from the
\* line that holds s: one plus the newlines before s, W lines to each side.
LineOf(u, s) == 1 + Cardinality({ p \in 1 .. s : u.text[p] = "NL" })
NumLines(u) == Len(_text_to_lines(u.text))
WinLo(u, h) == Max(1, LineOf(u, h.s) - CFG.WINDOW_LINES)
WinHi(u, h) == Min(NumLines(u), LineOf(u, h.s) + CFG.WINDOW_LINES)

\* Lines shared by two ranges, and the ratio to the longer one, in tenths.
Shared(a1, a2, b1, b2) == Cardinality((a1 .. a2) \cap (b1 .. b2))
Longer(a1, a2, b1, b2) == Max(a2 - a1 + 1, b2 - b1 + 1)
AtLeast(a1, a2, b1, b2, tenths) ==
    10 * Shared(a1, a2, b1, b2) >= tenths * Longer(a1, a2, b1, b2)

HitsAtLeast(u, h1, h2, tenths) ==
    AtLeast(WinLo(u, h1), WinHi(u, h1), WinLo(u, h2), WinHi(u, h2), tenths)

\* The matched fragment satisfies the allowlist pattern registered for k.
FragSatisfies(k, frag) ==
    k \in DOMAIN ALLOWLIST_RX /\ \E p \in Range(ALLOWLIST_RX[k]) : AltFound(p, frag)

\* The context gate is on and no token lies within CONTEXT_RADIUS lines of the
\* line of the hit.
NoContext(u, k, h) ==
    /\ k = "indirect_call" /\ CFG.INDIRECT_CONTEXT_ONLY
    /\ LET lns == _text_to_lines(u.text)
           c   == LineOf(u, h.s)
       IN  \A i \in DOMAIN lns :
              (c - CFG.CONTEXT_RADIUS <= i /\ i <= c + CFG.CONTEXT_RADIUS)
                  => "T" \notin Range(lns[i])

\* A gate discards the hit before any cap or dedup check.
Gated(u, k, h) == (IsHigh(k) /\ FragSatisfies(k, h.frag)) \/ NoContext(u, k, h)

-----------------------------------------------------------------------------
(* C1 *)

\* C1: every unit has at most PER_UNIT_CAP slices and, for every trigger, at
\* most PER_TRIGGER_CAP slices of that trigger, on both mid paths.
C1_Caps ==
    \A j \in DOMAIN units :
        /\ Len(UnitSlices(j)) <= CFG.PER_UNIT_CAP
        /\ \A t \in AllKeys : CountTrigger(UnitSlices(j), t) <= CFG.PER_TRIGGER_CAP

\* A finished strong-high unit filled to the per-unit cap in which a mid
\* trigger with more hits than the per-trigger cap holds exactly the cap.
C1_Witness ==
    /\ pc = "done"
    /\ \E j \in DOMAIN units :
          /\ Restricted(units[j])
          /\ Len(UnitSlices(j)) = CFG.PER_UNIT_CAP
          /\ \E t \in Range(RX_MID_KEYS) :
                /\ CFG.PER_TRIGGER_CAP > 0
                /\ CountTrigger(UnitSlices(j), t) = CFG.PER_TRIGGER_CAP
                /\ Len(units[j].hits[t]) > CFG.PER_TRIGGER_CAP

-----------------------------------------------------------------------------
(* C2 *)

RECURSIVE SumSlices(_)
SumSlices(ou) == IF ou = << >> THEN 0
                 ELSE Len(Head(ou).slices) + SumSlices(Tail(ou))

\* C2: the running total never exceeds TOTAL_CAP and equals the number of
\* slices accepted so far; when the batch ends with the cap reached, the unit
\* that reached it is the last output unit and keeps its slices, no unit
\* after it has an output unit, and the scan_fail errors are those of the
\* units up to it.
C2_TotalCap ==
    /\ total <= CFG.TOTAL_CAP
    /\ total = SumSlices(out_units) + (IF InUnit THEN Len(slices) ELSE 0)
    /\ (pc = "done" /\ total >= CFG.TOTAL_CAP) =>
          /\ SumSlices(out_units) = CFG.TOTAL_CAP
          /\ LET last == IF out_units = << >> THEN 0
                         ELSE out_pos[Len(out_units)]
             IN  /\ \A j \in DOMAIN units : j > last => OutOf(j) = {}
                 /\ ScanFails = FaultErrors(last)

\* The cap was reached with a unit left that has hits or faults.
C2_Witness ==
    /\ pc = "done"
    /\ CFG.TOTAL_CAP > 0 /\ total = CFG.TOTAL_CAP
    /\ ui <= Len(units)
    /\ \E j \in ui .. Len(units) : units[j].fault \/ NumHits(units[j]) > 0
    /\ NumHits(units[ui - 1]) > Len(UnitSlices(ui - 1))

-----------------------------------------------------------------------------
(* C3 *)

\* The unit has exactly two hits, both of trigger k and neither gated, whose
\* windows overlap at or above DEDUP_SAME.
TwoOverlapping(u, k) ==
    /\ NumHits(u) = 2 /\ Len(u.hits[k]) = 2
    /\ ~ Gated(u, k, u.hits[k][1]) /\ ~ Gated(u, k, u.hits[k][2])
    /\ HitsAtLeast(u, u.hits[k][1], u.hits[k][2], CFG.DEDUP_SAME)

\* C3: any two distinct slices of a unit overlap strictly below DEDUP_DIFF, and
\* strictly below DEDUP_SAME when they have the same trigger; a unit scanned
\* with every cap at least 1 whose only hits are two hits of one trigger with
\* windows overlapping at or above DEDUP_SAME yields exactly one slice.
C3_Dedup ==
    /\ \A j \in DOMAIN units :
          LET sl == UnitSlices(j)
          IN  \A a, b \in DOMAIN sl :
                 a # b =>
                    /\ ~ AtLeast(sl[a].start_line, sl[a].end_line,
                                 sl[b].start_line, sl[b].end_line, CFG.DEDUP_DIFF)
                    /\ sl[a].trigger = sl[b].trigger =>
                          ~ AtLeast(sl[a].start_line, sl[a].end_line,
                                    sl[b].start_line, sl[b].end_line, CFG.DEDUP_SAME)
    /\ ( /\ pc = "done" /\ units # << >>
         /\ CFG.PER_UNIT_CAP >= 1 /\ CFG.PER_TRIGGER_CAP >= 1 /\ CFG.TOTAL_CAP >= 1 )
       => \A k \in AllKeys :
             (~ units[1].fault /\ TwoOverlapping(units[1], k))
                => Len(UnitSlices(1)) = 1

\* A finished unit with two slices of different triggers, in which two hits of
\* one trigger overlap at or above DEDUP_SAME but below DEDUP_DIFF and only one
\* of them became a slice.
C3_Witness ==
    /\ pc = "done"
    /\ \E j \in DOMAIN units : \E k \in AllKeys :
          LET u == units[j]
          IN  /\ Len(u.hits[k]) >= 2
              /\ HitsAtLeast(u, u.hits[k][1], u.hits[k][2], CFG.DEDUP_SAME)
              /\ ~ HitsAtLeast(u, u.hits[k][1], u.hits[k][2], CFG.DEDUP_DIFF)
              /\ CountTrigger(UnitSlices(j), k) = 1
              /\ Len(UnitSlices(j)) >= 2

-----------------------------------------------------------------------------
(* Pure functions applied to enumerated arguments *)

MaxRange == 5      \* line numbers of the ranges given to _overlap
MaxMidCount == 3   \* mid_cat_count ranges over 0 .. MaxMidCount

\* The state outside process_units: nothing loaded, nothing scanned.
Idle(cfgs, args, at) ==
    /\ CFG \in cfgs
    /\ fn \in args
    /\ pc = at
    /\ override = NoOverride
    /\ source = JsonFile("ok", "other", << >>)
    /\ disable_mid = {}
    /\ RX_MID = Range(RX_MID_KEYS)
    /\ units = << >>
    /\ ALLOWLIST_RX = Compiled(DEFAULT_ALLOW)
    /\ errors = << >>
    /\ summary = [ k \in {} |-> 0 ]
    /\ out_units = << >>
    /\ out_pos = << >>
    /\ total = 0
    /\ ui = 1
    /\ lines = << >>
    /\ high_matches = NoMatches
    /\ mid_matches = NoMatches
    /\ sev_flags = NoFlags
    /\ slices = << >>
    /\ per_trigger_cnt = NoCnt
    /\ ki = 1 /\ mi = 1
    /\ mid_budget = 0
    /\ added = 0

notFn == << CFG, ALLOWLIST_RX, override, source, RX_MID, disable_mid, units, errors,
            summary, out_units, out_pos,
            total, ui, lines, high_matches, mid_matches, sev_flags, slices,
            per_trigger_cnt, ki, mi, mid_budget, added >>

(* _overlap *)

OverlapArgs ==
    { [ a1 |-> a1, a2 |-> a2, b1 |-> b1, b2 |-> b2 ] :
        a1 \in 1 .. MaxRange, a2 \in 1 .. MaxRange,
        b1 \in 1 .. MaxRange, b2 \in 1 .. MaxRange }

InitOverlap ==
    Idle({DefaultCFG},
         { x \in OverlapArgs : x.a1 <= x.a2 /\ x.b1 <= x.b2 }, "call_overlap")

\* _overlap evaluated with the arguments in both orders.
CallOverlap ==
    /\ pc = "call_overlap"
    /\ fn' = [ a1 |-> fn.a1, a2 |-> fn.a2, b1 |-> fn.b1, b2 |-> fn.b2,
               ab |-> _overlap(fn.a1, fn.a2, fn.b1, fn.b2),
               ba |-> _overlap(fn.b1, fn.b2, fn.a1, fn.a2) ]
    /\ pc' = "returned"
    /\ UNCHANGED notFn

SpecOverlap == InitOverlap /\ [][CallOverlap]_vars

\* C4: for ranges with a1 <= a2 and b1 <= b2 the ratio is the same in both
\* argument orders, lies in [0,1], is 1 exactly when the ranges are identical
\* and 0 exactly when they share no line.
C4_Overlap ==
    pc = "returned" =>
        /\ fn.ab.den > 0 /\ fn.ba.den > 0
        /\ fn.ab.num * fn.ba.den = fn.ba.num * fn.ab.den
        /\ 0 <= fn.ab.num /\ fn.ab.num <= fn.ab.den
        /\ (fn.ab.num = fn.ab.den) <=> (fn.a1 = fn.b1 /\ fn.a2 = fn.b2)
        /\ (fn.ab.num = 0) <=> ((fn.a1 .. fn.a2) \cap (fn.b1 .. fn.b2) = {})

\* Two different ranges of different lengths that share a line.
C4_Witness ==
    /\ pc = "returned"
    /\ fn.a2 - fn.a1 < fn.b2 - fn.b1
    /\ 0 < fn.ab.num /\ fn.ab.num < fn.ab.den

(* _severity_policy *)

InitSeverity ==
    Idle({ [ DefaultCFG EXCEPT !.PE_PROMOTE_WITH_MID = n ] : n \in 0 .. MaxPromote },
         { [ found_high_keys |-> ks, mid_cat_count |-> m ] :
             ks \in SUBSET Range(RX_HIGH_KEYS), m \in 0 .. MaxMidCount },
         "call_severity")

CallSeverity ==
    /\ pc = "call_severity"
    /\ fn' = [ found_high_keys |-> fn.found_high_keys,
               mid_cat_count   |-> fn.mid_cat_count,
               flags |-> _severity_policy(fn.found_high_keys, fn.mid_cat_count) ]
    /\ pc' = "returned"
    /\ UNCHANGED notFn

SpecSeverity == InitSeverity /\ [][CallSeverity]_vars

BothPE == {"pe_embed", "mz_pe_hdr"} \subseteq fn.found_high_keys
AnyPE == {"pe_embed", "mz_pe_hdr"} \cap fn.found_high_keys # {}
EnoughMid == fn.mid_cat_count >= CFG.PE_PROMOTE_WITH_MID

\* C5 as stated: pe_high is true iff both embedded-executable triggers fired or
\* the mid-category count is at least PE_PROMOTE_WITH_MID.
C5_Original ==
    pc = "returned" => (fn.flags.pe_high <=> (BothPE \/ EnoughMid))

\* C5 amended: pe_high is true iff at least one embedded-executable trigger
\* fired and either both fired or the mid-category count is at least
\* PE_PROMOTE_WITH_MID.
C5_PeHigh ==
    pc = "returned" => (fn.flags.pe_high <=> (AnyPE /\ (BothPE \/ EnoughMid)))

\* One embedded-executable trigger alone, promoted at the boundary value of the
\* mid-category count.
C5_Witness ==
    /\ pc = "returned"
    /\ AnyPE /\ ~ BothPE
    /\ CFG.PE_PROMOTE_WITH_MID > 0
    /\ fn.mid_cat_count = CFG.PE_PROMOTE_WITH_MID
    /\ fn.flags.pe_high

-----------------------------------------------------------------------------
(* C6 *)

\* C6: in a unit where a strong-high trigger fired and SKIP_MID_WHEN_STRONG_HIGH
\* is on, every slice with a trigger of the mid catalog has a trigger listed in
\* MID_WHITELIST_STRONG, and the unit holds at most
\* min(MID_MIN_WHEN_STRONG_HIGH, PER_UNIT_CAP - high-phase slices) of them, all
\* whitelisted triggers together.
C6_StrongQuota ==
    \A j \in DOMAIN units :
        Restricted(units[j]) =>
            LET sl == UnitSlices(j)
            IN  /\ \A i \in DOMAIN sl :
                      IsMid(sl[i].trigger) =>
                          sl[i].trigger \in Range(CFG.MID_WHITELIST_STRONG)
                /\ CountMid(sl) <= Min(CFG.MID_MIN_WHEN_STRONG_HIGH,
                                       CFG.PER_UNIT_CAP - CountHigh(sl))

\* A finished strong-high unit with room for two more slices and a quota of
\* one, in which two whitelisted triggers have hits on lines of their own and
\* only one mid slice was produced.
C6_Witness ==
    /\ pc = "done"
    /\ CFG.MID_MIN_WHEN_STRONG_HIGH = 1
    /\ \E j \in DOMAIN units :
          LET u == units[j]
          IN  /\ Restricted(u)
              /\ CFG.PER_UNIT_CAP - CountHigh(UnitSlices(j)) >= 2
              /\ Len(u.hits["b64_blob"]) = 1 /\ Len(u.hits["anti_debug"]) = 1
              /\ {"b64_blob", "anti_debug"} \subseteq Range(CFG.MID_WHITELIST_STRONG)
              /\ ~ HitsAtLeast(u, u.hits["b64_blob"][1], u.hits["anti_debug"][1], 1)
              /\ CountMid(UnitSlices(j)) = 1
              /\ CountTrigger(UnitSlices(j), "anti_debug") = 0

-----------------------------------------------------------------------------
(* C7 *)

ScenarioKeys == { "service_str", "b64_blob", "hex_array", "anti_debug",
                  "indirect_call", "xor_assign" }

\* Scenario C: the default configuration and allowlist, and a unit with one hit
\* of service_str and of each of the five mid triggers, the indirect_call hit
\* with a dangerous-API token on its line.
ScenarioC(u) ==
    /\ CFG = DefaultCFG
    /\ override = NoOverride
    /\ ~ u.fault
    /\ \A k \in AllKeys : Len(u.hits[k]) = (IF k \in ScenarioKeys THEN 1 ELSE 0)
    /\ ~ NoContext(u, "indirect_call", u.hits["indirect_call"][1])
    /\ "T" \in Range(_text_to_lines(u.text)[LineOf(u, u.hits["indirect_call"][1].s)])

\* The output of the unit is one service_str slice and otherwise mid slices of
\* whitelisted triggers.
ScenarioShape(sl) ==
    /\ CountTrigger(sl, "service_str") = 1
    /\ CountHigh(sl) = 1
    /\ \A i \in DOMAIN sl :
          sl[i].trigger # "service_str" =>
              /\ IsMid(sl[i].trigger)
              /\ sl[i].severity = "mid"
              /\ sl[i].trigger \in Range(CFG.MID_WHITELIST_STRONG)

\* The windows of the service_str hit and of the hits of the whitelisted
\* triggers overlap pairwise below DEDUP_DIFF.
ScenarioApart(u) ==
    \A k1, k2 \in {"service_str"} \cup Range(CFG.MID_WHITELIST_STRONG) :
        k1 # k2 => ~ HitsAtLeast(u, u.hits[k1][1], u.hits[k2][1], CFG.DEDUP_DIFF)

\* C7 as stated: the output of a scenario-C unit is the service_str slice plus
\* exactly 2 whitelisted mid slices, wherever the hits are.
C7_Original ==
    (pc = "done" /\ ScenarioC(units[1])) =>
        /\ ScenarioShape(UnitSlices(1))
        /\ CountMid(UnitSlices(1)) = 2

\* C7: the output of a scenario-C unit is the service_str slice plus at most 2
\* mid slices of whitelisted triggers; exactly 2 when the windows of the
\* service_str hit and of the whitelisted hits overlap pairwise below
\* DEDUP_DIFF, and none when the unit has at most WINDOW_LINES + 1 lines.
C7_ScenarioC ==
    (pc = "done" /\ ScenarioC(units[1])) =>
        LET sl == UnitSlices(1)
        IN  /\ ScenarioShape(sl)
            /\ CountMid(sl) <= 2
            /\ ScenarioApart(units[1]) => CountMid(sl) = 2
            /\ NumLines(units[1]) <= CFG.WINDOW_LINES + 1 => CountMid(sl) = 0

\* A finished scenario-C unit with windows apart: two mid slices, and the
\* hex_array hit, third in the order of the strong-high path, left out.
C7_Witness ==
    /\ pc = "done"
    /\ ScenarioC(units[1])
    /\ ScenarioApart(units[1])
    /\ Len(UnitSlices(1)) = 3
    /\ CountTrigger(UnitSlices(1), "b64_blob") = 1
    /\ CountTrigger(UnitSlices(1), "anti_debug") = 1
    /\ CountTrigger(UnitSlices(1), "hex_array") = 0

-----------------------------------------------------------------------------
(* C8 *)

\* The keys the strong-high path visits: whitelisted and in its key order.
Eligible == Range(STRONG_MID_ORDER) \cap Range(CFG.MID_WHITELIST_STRONG)

\* The window of hit i of key k shares no line with the window of any other
\* hit of the unit, and the context gate lets the hit pass.
Alone(u, k, i) ==
    /\ ~ NoContext(u, k, u.hits[k][i])
    /\ \A k2 \in AllKeys : \A i2 \in DOMAIN u.hits[k2] :
          << k2, i2 >> # << k, i >> =>
              Shared(WinLo(u, u.hits[k][i]), WinHi(u, u.hits[k][i]),
                     WinLo(u, u.hits[k2][i2]), WinHi(u, u.hits[k2][i2])) = 0

AloneHits(u, k) == Cardinality({ i \in DOMAIN u.hits[k] : Alone(u, k, i) })

RECURSIVE SumOver(_, _, _)
SumOver(u, K, cap) ==
    IF K = {} THEN 0
    ELSE LET k == CHOOSE x \in K : TRUE
         IN  Min(AloneHits(u, k), cap) + SumOver(u, K \ {k}, cap)

\* C8 as stated: a restricted unit whose whitelisted triggers have at least
\* MID_MIN_WHEN_STRONG_HIGH hits with windows of their own, finished below the
\* global cap, holds at least MID_MIN_WHEN_STRONG_HIGH mid slices.
C8_Original ==
    \A j \in DOMAIN units :
        ( /\ pc = "done" /\ total < CFG.TOTAL_CAP
          /\ ~ units[j].fault /\ Restricted(units[j])
          /\ SumOver(units[j], Range(CFG.MID_WHITELIST_STRONG) \cap Range(RX_MID_KEYS),
                     NumHits(units[j])) >= CFG.MID_MIN_WHEN_STRONG_HIGH )
        => CountMid(UnitSlices(j)) >= CFG.MID_MIN_WHEN_STRONG_HIGH

\* C8: a restricted unit in which the triggers of the strong-high key order
\* that are whitelisted have, counting at most PER_TRIGGER_CAP per trigger, at
\* least MID_MIN_WHEN_STRONG_HIGH hits with windows of their own, finished below
\* the global cap, holds at least
\* min(MID_MIN_WHEN_STRONG_HIGH, PER_UNIT_CAP - high-phase slices) mid slices.
C8_MinQuota ==
    \A j \in DOMAIN units :
        ( /\ pc = "done" /\ total < CFG.TOTAL_CAP
          /\ ~ units[j].fault /\ Restricted(units[j])
          /\ SumOver(units[j], Eligible, CFG.PER_TRIGGER_CAP)
                >= CFG.MID_MIN_WHEN_STRONG_HIGH )
        => CountMid(UnitSlices(j)) >=
              Min(CFG.MID_MIN_WHEN_STRONG_HIGH,
                  CFG.PER_UNIT_CAP - CountHigh(UnitSlices(j)))

\* A finished restricted unit with two hits of whitelisted triggers on lines of
\* their own and a quota of two, in which the high phase left room for one mid
\* slice only.
C8_Witness ==
    /\ pc = "done" /\ total < CFG.TOTAL_CAP
    /\ CFG.MID_MIN_WHEN_STRONG_HIGH = 2
    /\ \E j \in DOMAIN units :
          /\ ~ units[j].fault /\ Restricted(units[j])
          /\ SumOver(units[j], Eligible, CFG.PER_TRIGGER_CAP) >= 2
          /\ CountHigh(UnitSlices(j)) = CFG.PER_UNIT_CAP - 1
          /\ CountMid(UnitSlices(j)) = 1

-----------------------------------------------------------------------------
(* C9 *)

HighHits(u) == SumSeq([ i \in 1 .. Len(RX_HIGH_KEYS) |-> Len(u.hits[RX_HIGH_KEYS[i]]) ])

\* Hit i of high key k passes the allowlist, and neither a cap nor another
\* high hit's window stands in its way.
Unhindered(u, k, i) ==
    /\ ~ FragSatisfies(k, u.hits[k][i].frag)
    /\ HighHits(u) <= CFG.PER_UNIT_CAP
    /\ Len(u.hits[k]) <= CFG.PER_TRIGGER_CAP
    /\ \A k2 \in Range(RX_HIGH_KEYS) : \A i2 \in DOMAIN u.hits[k2] :
          << k2, i2 >> # << k, i >> =>
              Shared(WinLo(u, u.hits[k][i]), WinHi(u, u.hits[k][i]),
                     WinLo(u, u.hits[k2][i2]), WinHi(u, u.hits[k2][i2])) = 0

\* The step handles a high candidate whose fragment satisfies the allowlist
\* pattern of its trigger.
OnAllowlistedCand ==
    HighCand /\ FragSatisfies(HighKey, high_matches[HighKey][mi].frag)

\* C9: a step on a high candidate whose fragment satisfies the allowlist
\* pattern of its trigger changes no slice and no budget counter; a finished
\* unit whose hits of an allowlisted trigger all satisfy the pattern has no
\* slice of that trigger; a hit whose fragment does not satisfy the pattern,
\* within the caps and with a window of its own, has its slice.
C9_Allowlist ==
    /\ [][ OnAllowlistedCand =>
              UNCHANGED << slices, total, per_trigger_cnt, out_units, added >> ]_vars
    /\ [] ( pc = "done" =>
              \A j \in DOMAIN units : \A k \in Range(RX_HIGH_KEYS) :
                 LET u == units[j]
                 IN  /\ (\A i \in DOMAIN u.hits[k] : FragSatisfies(k, u.hits[k][i].frag))
                           => CountTrigger(UnitSlices(j), k) = 0
                     /\ (~ u.fault /\ total < CFG.TOTAL_CAP) =>
                           \A i \in DOMAIN u.hits[k] :
                              Unhindered(u, k, i) =>
                                 \E x \in DOMAIN UnitSlices(j) :
                                    /\ UnitSlices(j)[x].trigger = k
                                    /\ UnitSlices(j)[x].start_line = WinLo(u, u.hits[k][i])
                                    /\ UnitSlices(j)[x].end_line = WinHi(u, u.hits[k][i]) )

\* A finished unit with two reg_run hits, one with an allowlisted fragment and
\* one without, and exactly one reg_run slice, that of the second.
C9_Witness ==
    /\ pc = "done"
    /\ \E j \in DOMAIN units :
          LET u == units[j]
          IN  /\ Len(u.hits["reg_run"]) = 2
              /\ \E a, b \in DOMAIN u.hits["reg_run"] :
                    /\ FragSatisfies("reg_run", u.hits["reg_run"][a].frag)
                    /\ Unhindered(u, "reg_run", b)
                    /\ CountTrigger(UnitSlices(j), "reg_run") = 1
                    /\ \E x \in DOMAIN UnitSlices(j) :
                          /\ UnitSlices(j)[x].trigger = "reg_run"
                          /\ UnitSlices(j)[x].start_line = WinLo(u, u.hits["reg_run"][b])

-----------------------------------------------------------------------------
(* C10 *)

\* The pattern is no regular expression on its own.
NoRegex(p) == Opens(p) \/ Closes(p)

\* The override is a mapping whose values are all lists of non-empty strings
\* that compile.
WellFormed(src) ==
    /\ src.kind = "mapping"
    /\ \A k \in DOMAIN src.obj :
          /\ src.obj[k].islist
          /\ \A i \in DOMAIN src.obj[k].items :
                /\ IsStr(src.obj[k].items[i])
                /\ src.obj[k].items[i].v # ""
                /\ ~ NoRegex(src.obj[k].items[i].v)

Effective(t) == Range(Get(ALLOWLIST_RX, t, << >>))
DefaultOf(t) == Range(Get(DEFAULT_ALLOW, t, << >>))
OverrideOf(t) ==
    IF t \in DOMAIN override.obj
    THEN { override.obj[t].items[i].v : i \in DOMAIN override.obj[t].items }
    ELSE {}

\* C10 as stated: once a well-formed override is loaded, the effective
\* allowlist of every trigger is its default patterns together with its
\* override patterns.
C10_Additive ==
    (pc # "main" /\ WellFormed(override)) =>
        \A t \in AllKeys : Effective(t) = DefaultOf(t) \cup OverrideOf(t)

-----------------------------------------------------------------------------
(* C11 *)

\* The override source is malformed: it cannot be read or parsed, is not a
\* mapping, or maps a key to something other than a list of strings that
\* compile.
Malformed(src) ==
    \/ src.kind \in {"unreadable", "invalid_json", "notmapping"}
    \/ /\ src.kind = "mapping"
       /\ \E k \in DOMAIN src.obj :
             \/ ~ src.obj[k].islist
             \/ \E i \in DOMAIN src.obj[k].items :
                   \/ ~ IsStr(src.obj[k].items[i])
                   \/ NoRegex(src.obj[k].items[i].v)

\* C11 as stated: after _load_allowlist on a malformed override source no
\* error is recorded and the effective allowlist is the built-in defaults.
C11_Fallback ==
    (pc # "main" /\ Malformed(override)) =>
        /\ ALLOWLIST_RX = Compiled(DEFAULT_ALLOW)
        /\ pc = "load" => errors = << >>

-----------------------------------------------------------------------------
(* C12 *)

\* A dangerous-API token lies within r characters of the matched range.
TokenWithinChars(u, h, r) ==
    \E p \in DOMAIN u.text :
        u.text[p] = "T" /\ h.s - r <= p - 1 /\ p - 1 < h.e + r

\* The indirect_call hit of the unit whose window starts at the line the slice
\* starts at.
HitOfSlice(u, sl) ==
    { i \in DOMAIN u.hits["indirect_call"] :
        /\ WinLo(u, u.hits["indirect_call"][i]) = sl.start_line
        /\ WinHi(u, u.hits["indirect_call"][i]) = sl.end_line }

IndirectSlices(j) ==
    { x \in DOMAIN UnitSlices(j) : UnitSlices(j)[x].trigger = "indirect_call" }

\* Neither a cap, the quota, the whitelist nor another hit's window stands in
\* the way of hit i of indirect_call.
MidUnhindered(u, i) ==
    /\ NumHits(u) <= CFG.PER_UNIT_CAP
    /\ Len(u.hits["indirect_call"]) <= CFG.PER_TRIGGER_CAP
    /\ Restricted(u) =>
          /\ "indirect_call" \in Range(CFG.MID_WHITELIST_STRONG)
          /\ NumHits(u) - HighHits(u) <= CFG.MID_MIN_WHEN_STRONG_HIGH
    /\ \A k2 \in AllKeys : \A i2 \in DOMAIN u.hits[k2] :
          << k2, i2 >> # << "indirect_call", i >> =>
              Shared(WinLo(u, u.hits["indirect_call"][i]),
                     WinHi(u, u.hits["indirect_call"][i]),
                     WinLo(u, u.hits[k2][i2]), WinHi(u, u.hits[k2][i2])) = 0

\* C12 as stated: with the gate on, every indirect_call slice comes from a hit
\* with a dangerous-API token within CONTEXT_RADIUS characters of the match.
C12_Original ==
    CFG.INDIRECT_CONTEXT_ONLY =>
        \A j \in DOMAIN units : \A x \in IndirectSlices(j) :
            \E i \in HitOfSlice(units[j], UnitSlices(j)[x]) :
                TokenWithinChars(units[j], units[j].hits["indirect_call"][i],
                                 CFG.CONTEXT_RADIUS)

\* C12: with the gate on, every indirect_call slice comes from a hit with a
\* dangerous-API token on a line within CONTEXT_RADIUS lines of the line of
\* the match, on both mid paths; a hit that has such a token, or any hit when
\* the gate is off, is not discarded by the gate: within the caps and with a
\* window of its own it has its slice.
C12_ContextGate ==
    \A j \in DOMAIN units :
        LET u == units[j]
        IN  /\ \A x \in IndirectSlices(j) :
                  \E i \in HitOfSlice(u, UnitSlices(j)[x]) :
                      ~ NoContext(u, "indirect_call", u.hits["indirect_call"][i])
            /\ (pc = "done" /\ ~ u.fault /\ total < CFG.TOTAL_CAP) =>
                  \A i \in DOMAIN u.hits["indirect_call"] :
                      ( /\ ~ NoContext(u, "indirect_call", u.hits["indirect_call"][i])
                        /\ MidUnhindered(u, i) )
                      => \E x \in IndirectSlices(j) : i \in HitOfSlice(u, UnitSlices(j)[x])

\* A finished strong-high unit scanned with the gate on, with two indirect_call
\* hits: one has its token on the next line, farther than CONTEXT_RADIUS
\* characters, and has its slice; the other has no token in reach and has none.
C12_Witness ==
    /\ pc = "done"
    /\ CFG.INDIRECT_CONTEXT_ONLY
    /\ \E j \in DOMAIN units :
          LET u == units[j]
              h == u.hits["indirect_call"]
          IN  /\ Restricted(u)
              /\ Len(h) = 2
              /\ \E a, b \in DOMAIN h :
                    /\ ~ NoContext(u, "indirect_call", h[a])
                    /\ ~ TokenWithinChars(u, h[a], CFG.CONTEXT_RADIUS)
                    /\ NoContext(u, "indirect_call", h[b])
                    /\ \E x \in IndirectSlices(j) : a \in HitOfSlice(u, UnitSlices(j)[x])
                    /\ Cardinality(IndirectSlices(j)) = 1

-----------------------------------------------------------------------------
(* _make_slice applied to enumerated texts and matches *)

MaxText == 4      \* characters of a text given to _make_slice
MaxSnippet == 2   \* SNIPPET_CHARS ranges over -MaxSnippet .. MaxSnippet

\* Texts of ordinary characters, newlines and carriage returns, with or
\* without a line break at the end.
Texts == UNION { [ 1 .. n -> {"x", "NL", "CR"} ] : n \in 1 .. MaxText }

\* A match [s, e) of a text: not empty, within the text, starting at a
\* character that is not a line break.
SliceArgs ==
    UNION { { [ text |-> t, s |-> s, e |-> e ] :
                s \in { s \in 0 .. Len(t) - 1 : ~ IsBreak(t[s + 1]) },
                e \in 1 .. Len(t) } : t \in Texts }

InitSlice ==
    Idle({ [ DefaultCFG EXCEPT !.WINDOW_LINES = w, !.SNIPPET_CHARS = c ] :
             w \in 0 .. MaxWindow, c \in (0 - MaxSnippet) .. MaxSnippet },
         { x \in SliceArgs : x.s < x.e }, "call_make_slice")

\* lines = _text_to_lines(text), then _make_slice as process_units calls it.
CallMakeSlice ==
    /\ pc = "call_make_slice"
    /\ fn' = [ text |-> fn.text, s |-> fn.s, e |-> fn.e,
               slice |-> _make_slice([ unit_id |-> 1, name |-> 1 ],
                                     _text_to_lines(fn.text), fn.text,
                                     fn.s, fn.e, "anti_debug", "mid") ]
    /\ pc' = "made_slice"
    /\ UNCHANGED notFn

SpecSlice == InitSlice /\ [][CallMakeSlice]_vars

-----------------------------------------------------------------------------
(* C13 *)

\* L: one plus the newline characters before the match start; N: the lines of
\* the text.
MatchLine == 1 + Cardinality({ p \in 1 .. fn.s : fn.text[p] = "NL" })
TextLines == Len(_text_to_lines(fn.text))

\* C13: the slice of a match at offset s has start_line = max(1, L - W) and
\* end_line = min(N, L + W), start_line <= L <= end_line, and its window is
\* the consecutive line numbers start_line .. end_line, each with its text.
C13_Window ==
    pc = "made_slice" =>
        LET r == fn.slice
            w == r.decomp_slice
        IN  /\ r.start_line = Max(1, MatchLine - CFG.WINDOW_LINES)
            /\ r.end_line = Min(TextLines, MatchLine + CFG.WINDOW_LINES)
            /\ r.start_line <= MatchLine /\ MatchLine <= r.end_line
            /\ Len(w) = r.end_line - r.start_line + 1
            /\ \A i \in DOMAIN w :
                  /\ w[i].lineno = r.start_line + i - 1
                  /\ w[i].text = _text_to_lines(fn.text)[w[i].lineno]

\* A slice of a match on the last line of a text of several lines that has no
\* line break at its end, with a window clipped at the last line.
C13_Witness ==
    /\ pc = "made_slice"
    /\ ~ IsBreak(fn.text[Len(fn.text)])
    /\ TextLines >= 2 /\ MatchLine = TextLines
    /\ CFG.WINDOW_LINES >= 1
    /\ fn.slice.end_line = TextLines
    /\ fn.slice.start_line = MatchLine - CFG.WINDOW_LINES
    /\ Len(fn.slice.decomp_slice) = CFG.WINDOW_LINES + 1

-----------------------------------------------------------------------------
(* C14 *)

\* The excerpt is text[a:b] with a <= s, e <= b, at most SNIPPET_CHARS
\* characters before the match start and after the match end.
ExcerptAround(a, b) ==
    /\ 0 <= a /\ a <= fn.s /\ fn.e <= b /\ b <= Len(fn.text)
    /\ fn.s - a <= CFG.SNIPPET_CHARS /\ b - fn.e <= CFG.SNIPPET_CHARS
    /\ fn.slice.evidence = SubSeq(fn.text, a + 1, b)

\* C14 as stated: the excerpt is such a substring and its length stays under a
\* maximum fixed by the configuration alone; SNIPPET_CHARS is the only
\* configured length, and the excerpt of a one-character match has up to
\* 2 * SNIPPET_CHARS + 1 characters.
C14_Original ==
    pc = "made_slice" =>
        /\ \E a, b \in 0 .. Len(fn.text) : ExcerptAround(a, b)
        /\ Len(fn.slice.evidence) <= 2 * CFG.SNIPPET_CHARS + 1

\* C14: the excerpt is a contiguous substring of the text; for
\* SNIPPET_CHARS >= 0 it contains the matched range and extends at most
\* SNIPPET_CHARS characters before the match start and after the match end,
\* and its length is at most the length of the match plus 2 * SNIPPET_CHARS
\* and at least the length of the match.
C14_Excerpt ==
    pc = "made_slice" =>
        /\ \E a, b \in 0 .. Len(fn.text) :
              fn.slice.evidence = SubSeq(fn.text, a + 1, b)
        /\ CFG.SNIPPET_CHARS >= 0 =>
              /\ \E a, b \in 0 .. Len(fn.text) : ExcerptAround(a, b)
              /\ Len(fn.slice.evidence) <= (fn.e - fn.s) + 2 * CFG.SNIPPET_CHARS
              /\ Len(fn.slice.evidence) >= fn.e - fn.s

\* The excerpt of a match of three characters with SNIPPET_CHARS = 0: the
\* match itself, longer than 2 * SNIPPET_CHARS + 1.
C14_Witness ==
    /\ pc = "made_slice"
    /\ CFG.SNIPPET_CHARS = 0
    /\ fn.e - fn.s = 3
    /\ fn.slice.evidence = SubSeq(fn.text, fn.s + 1, fn.e)

-----------------------------------------------------------------------------
(* C15 *)

\* C15: the slices of every output unit are in non-decreasing order of
\* start_line.
C15_Sorted ==
    \A o \in DOMAIN out_units :
        \A a, b \in DOMAIN out_units[o].slices :
            a < b => out_units[o].slices[a].start_line
                        <= out_units[o].slices[b].start_line

\* An output unit that starts with a mid-trigger slice on an earlier line than
\* a high-trigger slice, which the high phase accepted first.
C15_Witness ==
    \E o \in DOMAIN out_units :
        LET sl == out_units[o].slices
        IN  /\ Len(sl) >= 2
            /\ IsMid(sl[1].trigger) /\ IsHigh(sl[2].trigger)
            /\ sl[1].start_line < sl[2].start_line

-----------------------------------------------------------------------------
(* C16 *)

\* The trigger names in alphabetical order.
ByName == << "anti_debug", "b64_blob", "cast_call", "com_sched", "hex_array",
             "indirect_call", "inline_syscall", "mz_pe_hdr", "pe_embed",
             "reg_run", "rol_ror_loop", "service_str", "tasks_sched",
             "xor_assign", "xor_loop" >>

PosIn(order, t) == CHOOSE i \in DOMAIN order : order[i] = t

\* The order in which process_units visits the triggers of unit u: the high
\* keys, then the keys of the mid path the unit takes.
Visited(u) ==
    HIGH_ORDER \o (IF Restricted(u) THEN STRONG_MID_ORDER ELSE MID_ORDER)

UnitOf(o) == units[out_pos[o]]

\* C16 as stated: adjacent slices of an output unit with equal start_line are
\* in the order of their trigger names.
C16_Original ==
    \A o \in DOMAIN out_units :
        LET sl == out_units[o].slices
        IN  \A a \in 1 .. Len(sl) - 1 :
               sl[a].start_line = sl[a + 1].start_line =>
                   PosIn(ByName, sl[a].trigger) <= PosIn(ByName, sl[a + 1].trigger)

\* C16: adjacent slices of an output unit with equal start_line are in the
\* order in which their triggers were visited: high triggers in the order of
\* the high phase, then mid triggers in the key order of the mid path.
C16_TieOrder ==
    \A o \in DOMAIN out_units :
        LET sl == out_units[o].slices
        IN  \A a \in 1 .. Len(sl) - 1 :
               sl[a].start_line = sl[a + 1].start_line =>
                   PosIn(Visited(UnitOf(o)), sl[a].trigger)
                      <= PosIn(Visited(UnitOf(o)), sl[a + 1].trigger)

\* An output unit in which a service_str slice precedes a b64_blob slice that
\* starts at the same line.
C16_Witness ==
    \E o \in DOMAIN out_units :
        LET sl == out_units[o].slices
        IN  \E a \in 1 .. Len(sl) - 1 :
               /\ sl[a].start_line = sl[a + 1].start_line
               /\ sl[a].trigger = "service_str"
               /\ sl[a + 1].trigger = "b64_blob"
               /\ sl[a].end_line # sl[a + 1].end_line

-----------------------------------------------------------------------------
(* Two invocations of process_units *)

\* The strong-high family with one slice per trigger, and room in the unit
\* for one slice or for the whole quota.
TwiceStrongCfgs ==
    { c \in StrongCfgs : c.PER_UNIT_CAP \in {1, MaxCap + 1} /\ c.PER_TRIGGER_CAP = 1 }

InitTwice ==
    \/ InitWith(CapsCfgs, {NoOverride}, CapsBatches)
    \/ InitWith(TwiceStrongCfgs, {NoOverride}, Single(StrongUnits))
    \/ InitWith(AllowCfgs, Overrides, Single(AllowUnits))
    \/ InitWith(CtxCfgs, {NoOverride}, Single(CtxUnits))
    \/ InitMain(GapCfgs, {NoOverride},
                { JsonFile("ok", "text", << it >>) : it \in OwnTexts }, {{}})

\* Mutant: the running total is carried over into the next invocation.
InvokeAgain_carry ==
    /\ pc = "done" /\ fn = << >>
    /\ fn' = << [ units |-> out_units, summary |-> summary, errors |-> errors ] >>
    /\ out_units' = << >>
    /\ out_pos' = << >>
    /\ errors' = << >>
    /\ summary' = [ k \in {} |-> 0 ]
    /\ ui' = 1
    /\ pc' = "loop"
    /\ UNCHANGED << CFG, ALLOWLIST_RX, override, source, RX_MID, disable_mid, units,
                    total,
                    unitLocals >>

\* The caller keeps the result and calls process_units once more on the same
\* units with a fresh summary: out_units=[]; total=0 of slice.py:332. The
\* locals of the first call are gone; the model leaves their last values, which
\* the second call overwrites before it reads them.
InvokeAgain ==
    /\ pc = "done" /\ fn = << >>
    /\ fn' = << [ units |-> out_units, summary |-> summary, errors |-> errors ] >>
    /\ out_units' = << >>
    /\ out_pos' = << >>
    /\ total' = 0
    /\ errors' = << >>
    /\ summary' = [ k \in {} |-> 0 ]
    /\ ui' = 1
    /\ pc' = "loop"
    /\ UNCHANGED << CFG, ALLOWLIST_RX, override, source, RX_MID, disable_mid, units,
                    unitLocals >>

NextTwice == Next \/ InvokeAgain

SpecTwice == InitTwice /\ [][NextTwice]_vars

-----------------------------------------------------------------------------
(* C17 *)

\* C17: the second invocation on the same units, configuration and allowlist
\* returns the same output units (same slices, same order, same content), the
\* same totals and the same errors as the first, also when the first
\* exhausted a cap.
C17_Deterministic ==
    (pc = "done" /\ Len(fn) = 1) =>
        /\ out_units = fn[1].units
        /\ summary = fn[1].summary
        /\ errors = fn[1].errors

\* The second invocation has returned; both stopped at the global cap with
\* slices produced and a unit left unscanned.
C17_Witness ==
    /\ pc = "done" /\ Len(fn) = 1
    /\ CFG.TOTAL_CAP > 0 /\ total = CFG.TOTAL_CAP
    /\ ui <= Len(units)
    /\ fn[1].summary.total_slices = CFG.TOTAL_CAP
    /\ out_units # << >>

-----------------------------------------------------------------------------
(* C18 *)

\* The batch loop is at a unit on which collecting matches fails.
AtFaultyUnit ==
    pc = "loop" /\ ui <= Len(units) /\ total < CFG.TOTAL_CAP /\ units[ui].fault

\* C18: at a unit on which collecting matches fails, the step appends one
\* scan_fail error for the unit, leaves the total and the output units as they
\* are and moves to the next unit; such a unit never has an output unit, and
\* the scan_fail errors are one for each such unit passed, in the order of the
\* units; a batch that ends below the global cap
\* has visited every unit, and every other unit with an ungated hit of a
\* trigger its path visits (a high trigger, or a mid trigger that is scanned
\* when the strong-high policy does not apply), scanned with caps of at least
\* 1, has its output unit.
C18_ScanFail ==
    /\ [][ AtFaultyUnit =>
              /\ errors' = Append(errors, << "scan_fail", units[ui].name >>)
              /\ UNCHANGED << out_units, total >>
              /\ ui' = ui + 1 /\ pc' = "loop" ]_vars
    /\ [] ( /\ \A j \in DOMAIN units : units[j].fault => OutOf(j) = {}
            /\ ScanFails = FaultErrors(ui - 1) )
    /\ [] ( (pc = "done" /\ total < CFG.TOTAL_CAP) =>
               /\ ui > Len(units)
               /\ \A j \in DOMAIN units :
                     ( /\ ~ units[j].fault
                       /\ CFG.PER_UNIT_CAP >= 1 /\ CFG.PER_TRIGGER_CAP >= 1
                       /\ \E k \in AllKeys \ (disable_mid \ {"b64_blob"}) :
                          \E i \in DOMAIN units[j].hits[k] :
                             /\ IsHigh(k) \/ ~ Restricted(units[j])
                             /\ ~ Gated(units[j], k, units[j].hits[k][i]) )
                     => OutOf(j) # {} )

\* A finished batch whose first unit failed and whose second unit has its
\* slices: one error, one output unit.
C18_Witness ==
    /\ pc = "done"
    /\ Len(units) >= 2
    /\ units[1].fault /\ ~ units[2].fault
    /\ errors = << << "scan_fail", units[1].name >> >>
    /\ Len(out_units) = 1 /\ out_pos[1] = 2
    /\ total = Len(out_units[1].slices) /\ total > 0

-----------------------------------------------------------------------------
(* String literals and base64 runs: texts of code points *)

\* A text here is a sequence of code points; offset i of the source is
\* position i + 1 of the sequence, and Slice(t, s, e) is t[s:e].
At(t, i) == t[i + 1]
Slice(t, s, e) == SubSeq(t, s + 1, e)

RECURSIVE Flat(_)
Flat(qs) == IF qs = << >> THEN << >> ELSE qs[1] \o Flat(Tail(qs))

\* [A-Za-z0-9+/], [0-9A-Fa-f], the octal digits, and \s of a str pattern
\* below code point 256.
B64Class == (65 .. 90) \cup (97 .. 122) \cup (48 .. 57) \cup {43, 47}
HexClass == (48 .. 57) \cup (65 .. 70) \cup (97 .. 102)
OctClass == 48 .. 55
SpaceClass == (9 .. 13) \cup (28 .. 32) \cup {133, 160}

\* The index after the characters of class C read from offset j on.
RECURSIVE RunEnd(_, _, _)
RunEnd(t, j, C) ==
    IF j < Len(t) /\ At(t, j) \in C THEN RunEnd(t, j + 1, C) ELSE j

(* BASE64_BLOB_RX *)

\* The decimal digits of k >= 0.
RECURSIVE Digits(_)
Digits(k) == IF k < 10 THEN << 48 + k >> ELSE Digits(k \div 10) \o << 48 + (k % 10) >>

\* rf"[A-Za-z0-9+/]{{{n},}}={0,2}": the replacement field {0,2} formats the
\* tuple (0, 2), so the pattern is n or more base64 characters, "=", and the
\* group "0, 2". For n < 0 the braces {-k,} are no repetition: the pattern is
\* one base64 character and the text {-k,}=0, 2. max is the most base64
\* characters a match takes, -1 for no limit.
_mk_base64_rx(n) ==
    IF n >= 0
    THEN [ min |-> n, max |-> -1, tail |-> << 61, 48, 44, 32, 50 >> ]
    ELSE [ min |-> 1, max |-> 1,
           tail |-> << 123, 45 >> \o Digits(0 - n) \o << 44, 125 >>
                    \o << 61, 48, 44, 32, 50 >> ]

\* The end of the match of rx that starts at offset p of t, or -1.
RxEnd(rx, t, p) ==
    LET run == RunEnd(t, p, B64Class)
        r   == IF rx.max >= 0 THEN Min(run, p + rx.max) ELSE run
    IN  IF /\ r - p >= rx.min
           /\ r + Len(rx.tail) <= Len(t)
           /\ Slice(t, r, r + Len(rx.tail)) = rx.tail
        THEN r + Len(rx.tail) ELSE -1

\* rx.finditer(t) from offset pos on: the leftmost match, then the search
\* goes on where it ended.
RECURSIVE RxIter(_, _, _)
RxIter(rx, t, pos) ==
    LET e == RxEnd(rx, t, pos)
    IN  IF pos >= Len(t) THEN << >>
        ELSE IF e = -1 THEN RxIter(rx, t, pos + 1)
        ELSE << [ s |-> pos, e |-> e ] >> \o RxIter(rx, t, e)

(* _decode_with_map *)

DigitVal(c) == IF c \in 48 .. 57 THEN c - 48
               ELSE IF c \in 65 .. 70 THEN c - 55 ELSE c - 87

\* int(h, base)
RECURSIVE IntOf(_, _)
IntOf(h, base) ==
    IF h = << >> THEN 0
    ELSE IntOf(SubSeq(h, 1, Len(h) - 1), base) * base + DigitVal(h[Len(h)])

\* The index after at most m digits of class C read from offset j on.
RECURSIVE DigitsEnd(_, _, _, _)
DigitsEnd(raw, j, m, C) ==
    IF j < Len(raw) /\ m > 0 /\ At(raw, j) \in C
    THEN DigitsEnd(raw, j + 1, m - 1, C) ELSE j

\* out_chars.append(c); idx_map.append(i), before what the rest of the loop
\* appends.
Emit(c, i, rest) ==
    [ out_chars |-> << c >> \o rest.out_chars, idx_map |-> << i >> \o rest.idx_map ]

\* The while loop of _decode_with_map from index i on.
RECURSIVE DecodeFrom(_, _)
DecodeFrom(raw, i) ==
    IF i >= Len(raw) THEN [ out_chars |-> << >>, idx_map |-> << >> ]
    ELSE IF At(raw, i) # 92 THEN Emit(At(raw, i), i, DecodeFrom(raw, i + 1))
    ELSE IF i + 1 >= Len(raw) THEN Emit(92, i, DecodeFrom(raw, i + 1))
    ELSE LET n == At(raw, i + 1)
             hj == DigitsEnd(raw, i + 2, 2, HexClass)
             oj == DigitsEnd(raw, i + 1, 3, OctClass)
         IN  IF n \in {92, 34, 39} THEN Emit(n, i, DecodeFrom(raw, i + 2))
             ELSE IF n = 110 THEN Emit(10, i, DecodeFrom(raw, i + 2))
             ELSE IF n = 114 THEN Emit(13, i, DecodeFrom(raw, i + 2))
             ELSE IF n = 116 THEN Emit(9, i, DecodeFrom(raw, i + 2))
             ELSE IF n = 120
                  THEN IF hj > i + 2
                       THEN Emit(IntOf(Slice(raw, i + 2, hj), 16), i,
                                 DecodeFrom(raw, hj))
                       ELSE Emit(120, i, DecodeFrom(raw, i + 2))
             ELSE IF n \in OctClass
                  THEN Emit(IntOf(Slice(raw, i + 1, oj), 8), i, DecodeFrom(raw, oj))
             ELSE Emit(n, i, DecodeFrom(raw, i + 2))

_decode_with_map(raw) == DecodeFrom(raw, 0)

(* _ONE_RXIT and _SEQ_RX *)

\* (?:\\.|[^"\\])*" from offset p on: the offset of the closing quote, or -1.
\* A backslash takes the next character with it unless that is a newline.
RECURSIVE BodyEnd(_, _)
BodyEnd(t, p) ==
    IF p >= Len(t) THEN -1
    ELSE IF At(t, p) = 34 THEN p
    ELSE IF At(t, p) = 92
         THEN IF p + 1 < Len(t) /\ At(t, p + 1) # 10 THEN BodyEnd(t, p + 2) ELSE -1
    ELSE BodyEnd(t, p + 1)

\* (?:L|u8|u|U)? at offset p: the offsets where it can end, in the order the
\* alternatives are tried.
PrefixEnds(t, p) ==
    (IF p < Len(t) /\ At(t, p) = 76 THEN << p + 1 >> ELSE << >>)
    \o (IF p + 1 < Len(t) /\ At(t, p) = 117 /\ At(t, p + 1) = 56
        THEN << p + 2 >> ELSE << >>)
    \o (IF p < Len(t) /\ At(t, p) \in {117, 85} THEN << p + 1 >> ELSE << >>)
    \o << p >>

\* \s*"body" at offset q: b is the start of the body and c the closing quote.
QuotedAt(t, q) ==
    LET o == RunEnd(t, q, SpaceClass)
        c == IF o < Len(t) /\ At(t, o) = 34 THEN BodyEnd(t, o + 1) ELSE -1
    IN  [ ok |-> c # -1, b |-> o + 1, c |-> c ]

\* The match of _ONE_RXIT that starts at offset p, group 1 being t[b:c].
RECURSIVE FirstQuoted(_, _)
FirstQuoted(t, opts) ==
    IF opts = << >> THEN [ ok |-> FALSE, b |-> 0, c |-> -1 ]
    ELSE LET m == QuotedAt(t, opts[1])
         IN  IF m.ok THEN m ELSE FirstQuoted(t, Tail(opts))

_ONE_RXIT(t, p) == FirstQuoted(t, PrefixEnds(t, p))

\* (?:\s*(?:L|u8|u|U)?\s*"body")+ is greedy: the end after as many further
\* literals as follow offset e.
RECURSIVE MoreLiterals(_, _)
MoreLiterals(t, e) ==
    LET m == _ONE_RXIT(t, RunEnd(t, e, SpaceClass))
    IN  IF m.ok THEN MoreLiterals(t, m.c + 1) ELSE e

\* The end of the match of _SEQ_RX that starts at offset p, or -1: a literal
\* and at least one more.
_SEQ_RX(t, p) ==
    LET m == _ONE_RXIT(t, p)
        e == MoreLiterals(t, m.c + 1)
    IN  IF m.ok /\ e > m.c + 1 THEN e ELSE -1

\* _SEQ_RX.finditer(t) and _ONE_RXIT.finditer(t) from offset pos on.
RECURSIVE SeqIter(_, _)
SeqIter(t, pos) ==
    LET e == _SEQ_RX(t, pos)
    IN  IF pos >= Len(t) THEN << >>
        ELSE IF e = -1 THEN SeqIter(t, pos + 1)
        ELSE << [ s |-> pos, e |-> e ] >> \o SeqIter(t, e)

RECURSIVE OneIter(_, _)
OneIter(t, pos) ==
    LET m == _ONE_RXIT(t, pos)
    IN  IF pos >= Len(t) THEN << >>
        ELSE IF ~ m.ok THEN OneIter(t, pos + 1)
        ELSE << m >> \o OneIter(t, m.c + 1)

(* _find_b64_concat_mapped *)

\* parts: for each literal of the sequence m, its decoded body and the
\* offsets of orig_text its characters come from; off is seq_start.
Parts(orig_text, m, off) ==
    LET seq_txt == Slice(orig_text, m.s, m.e)
        lits == OneIter(seq_txt, 0)
    IN  [ k \in DOMAIN lits |->
            LET d == _decode_with_map(Slice(seq_txt, lits[k].b, lits[k].c))
            IN  [ dec |-> d.out_chars,
                  mp |-> [ j \in DOMAIN d.idx_map |-> off + lits[k].b + d.idx_map[j] ] ] ]

\* The hits of one sequence: the matches of rx in the joined decoded bodies,
\* mapped back through amap.
SeqHits(rx, parts) ==
    LET full == Flat([ k \in DOMAIN parts |-> parts[k].dec ])
        amap == Flat([ k \in DOMAIN parts |-> parts[k].mp ])
        bms == SelectSeq(RxIter(rx, full, 0),
                         LAMBDA bm : bm.s < Len(amap) /\ bm.e - 1 < Len(amap))
    IN  [ k \in DOMAIN bms |->
            [ s |-> At(amap, bms[k].s), e |-> At(amap, bms[k].e - 1) + 1,
              frag |-> Slice(full, bms[k].s, bms[k].e) ] ]

\* body_start taken within seq_txt only, without seq_start.
_find_b64_concat_mapped_rel(rx, orig_text) ==
    LET ms == SeqIter(orig_text, 0)
    IN  Flat([ k \in DOMAIN ms |-> SeqHits(rx, Parts(orig_text, ms[k], 0)) ])

_find_b64_concat_mapped(rx, orig_text) ==
    LET ms == SeqIter(orig_text, 0)
    IN  Flat([ k \in DOMAIN ms |-> SeqHits(rx, Parts(orig_text, ms[k], ms[k].s)) ])

\* The b64_arr of the direct scan, slice.py:235.
DirectHits(rx, text) ==
    LET ms == RxIter(rx, text, 0)
    IN  [ k \in DOMAIN ms |->
            [ s |-> ms[k].s, e |-> ms[k].e, frag |-> Slice(text, ms[k].s, ms[k].e) ] ]

\* The unit of a text of code points, no trigger but b64_blob matching it.
LiteralUnit(rx, text) ==
    [ unit_id |-> 0, name |-> 0, text |-> text,
      hits |-> [ k \in AllKeys |->
                   IF k = "b64_blob" THEN DirectHits(rx, text) ELSE << >> ],
      b64_concat |-> _find_b64_concat_mapped(rx, text), fault |-> FALSE ]

-----------------------------------------------------------------------------
(* _decode_with_map and _collect_matches applied to enumerated texts *)

MaxRaw == 4       \* characters of a raw body given to _decode_with_map
MaxItems == 4     \* items between the first and the last quote of a text
MaxB64Len == 2    \* BASE64_MIN_LEN ranges over 1 .. MaxB64Len

\* Raw bodies over backslash, x, n, A (a hex digit), 7 (an octal digit), q
\* and the double quote.
RawBodies == UNION { [ 1 .. n -> {92, 120, 110, 65, 55, 113, 34} ] : n \in 0 .. MaxRaw }

\* What stands between the quotes of a text: A, the tail =0, 2 of the base64
\* pattern, the escapes \x41, \101, \q and \", the literal boundary " " and
\* the broken boundary "+".
Items ==
    { << 65 >>, << 61, 48, 44, 32, 50 >>, << 92, 120, 52, 49 >>,
      << 92, 49, 48, 49 >>, << 92, 113 >>, << 92, 34 >>,
      << 34, 32, 34 >>, << 34, 43, 34 >> }

\* What stands before the first quote: a letter, or the prefix L.
Leads == { << 65 >>, << 76 >> }

LiteralTexts ==
    { lead \o << 34 >> \o Flat(items) \o << 34 >> :
        lead \in Leads,
        items \in UNION { [ 1 .. n -> Items ] : n \in 0 .. MaxItems } }

\* Texts for --b64-len -1, which main takes as given: A, the text {-1,}=0, 2
\* and the literal boundary between the quotes.
NegItems ==
    { << 65 >>, << 123, 45, 49, 44, 125, 61, 48, 44, 32, 50 >>, << 34, 32, 34 >> }
NegTexts ==
    { lead \o << 34 >> \o Flat(items) \o << 34 >> :
        lead \in Leads,
        items \in UNION { [ 1 .. n -> NegItems ] : n \in 0 .. MaxItems - 1 } }

InitLiterals ==
    \/ Idle({DefaultCFG}, { [ raw |-> r ] : r \in RawBodies }, "call_decode")
    \/ Idle({DefaultCFG},
            { [ text |-> t, n |-> n ] : t \in LiteralTexts, n \in 1 .. MaxB64Len },
            "call_collect")
    \/ Idle({DefaultCFG}, { [ text |-> t, n |-> -1 ] : t \in NegTexts }, "call_collect")

CallDecode ==
    /\ pc = "call_decode"
    /\ fn' = [ raw |-> fn.raw, ret |-> _decode_with_map(fn.raw) ]
    /\ pc' = "decoded"
    /\ UNCHANGED notFn

\* BASE64_BLOB_RX = _mk_base64_rx(n), then _collect_matches(text); direct and
\* concat are the two lists it joins into b64_arr.
CallCollect ==
    /\ pc = "call_collect"
    /\ LET BASE64_BLOB_RX == _mk_base64_rx(fn.n)
           unit == LiteralUnit(BASE64_BLOB_RX, fn.text)
       IN  fn' = [ text |-> fn.text, n |-> fn.n,
                   direct |-> unit.hits["b64_blob"],
                   concat |-> unit.b64_concat,
                   got |-> _collect_matches(unit) ]
    /\ pc' = "collected"
    /\ UNCHANGED notFn

NextLiterals == CallDecode \/ CallCollect

SpecLiterals == InitLiterals /\ [][NextLiterals]_vars

-----------------------------------------------------------------------------
(* C19 *)

\* The match lists _collect_matches returned, and the entries of a list
\* with the offsets of x.
GotLists == { fn.got.high[k] : k \in DOMAIN fn.got.high }
                \cup { fn.got.mid[k] : k \in DOMAIN fn.got.mid }
SameSpan(q, x) == { i \in DOMAIN q : q[i].s = x.s /\ q[i].e = x.e }

\* C19: every match list _collect_matches returns is in non-decreasing order
\* of start offset, every entry has start < end <= len(text), no two entries
\* have the same (start, end), and a base64 run found with the same start and
\* end by the direct scan and by the scan of concatenated literals is in the
\* b64_blob list once.
C19_MatchLists ==
    pc = "collected" =>
        /\ \A q \in GotLists :
              /\ \A i \in DOMAIN q : q[i].s < q[i].e /\ q[i].e <= Len(fn.text)
              /\ \A i, j \in DOMAIN q : i < j => q[i].s <= q[j].s
              /\ \A i \in DOMAIN q : SameSpan(q, q[i]) = {i}
        /\ \A d \in Range(fn.direct) :
              (\E c \in Range(fn.concat) : c.s = d.s /\ c.e = d.e)
                  => /\ "b64_blob" \in DOMAIN fn.got.mid
                     /\ Cardinality(SameSpan(fn.got.mid["b64_blob"], d)) = 1

\* A run that both scans report with the same offsets, after a literal with
\* an escape in it, is the one entry of the list.
C19_Witness ==
    /\ pc = "collected"
    /\ Len(fn.direct) = 1 /\ Len(fn.concat) = 1
    /\ fn.direct[1].s = fn.concat[1].s /\ fn.direct[1].e = fn.concat[1].e
    /\ \E p \in 0 .. fn.direct[1].s - 1 : At(fn.text, p) = 92
    /\ Len(fn.got.mid["b64_blob"]) = 1

-----------------------------------------------------------------------------
(* C20 *)

\* raw[a:b] is one source token and c the character it stands for: a plain
\* character, a backslash at the end, a backslash pair, \x with one or two hex
\* digits, \x without one, a backslash with one to three octal digits, or a
\* backslash and any other character.
AllIn(raw, a, b, C) == \A p \in a .. b - 1 : At(raw, p) \in C
Maximal(raw, a, b, m, C) ==
    /\ b - a \in 1 .. m
    /\ AllIn(raw, a, b, C)
    /\ (b - a = m \/ b = Len(raw) \/ At(raw, b) \notin C)
TokenAt(raw, a, b, c) ==
    /\ 0 <= a /\ a < b /\ b <= Len(raw)
    /\ IF At(raw, a) # 92 THEN b = a + 1 /\ c = At(raw, a)
       ELSE IF a + 1 = Len(raw) THEN b = a + 1 /\ c = 92
       ELSE LET n == At(raw, a + 1)
            IN  IF n = 110 THEN b = a + 2 /\ c = 10
                ELSE IF n = 114 THEN b = a + 2 /\ c = 13
                ELSE IF n = 116 THEN b = a + 2 /\ c = 9
                ELSE IF n = 120 /\ a + 2 < Len(raw) /\ At(raw, a + 2) \in HexClass
                     THEN /\ Maximal(raw, a + 2, b, 2, HexClass)
                          /\ c = IntOf(Slice(raw, a + 2, b), 16)
                ELSE IF n \in OctClass
                     THEN /\ Maximal(raw, a + 1, b, 3, OctClass)
                          /\ c = IntOf(Slice(raw, a + 1, b), 8)
                ELSE b = a + 2 /\ c = n

\* The literals of the sequence that starts at offset p of the text, with
\* offsets of the text.
RECURSIVE LiteralsFrom(_, _)
LiteralsFrom(t, p) ==
    LET m == _ONE_RXIT(t, RunEnd(t, p, SpaceClass))
    IN  IF m.ok THEN << m >> \o LiteralsFrom(t, m.c + 1) ELSE << >>

IsPrefix(a, b) == Len(a) <= Len(b) /\ a = SubSeq(b, 1, Len(a))

\* The hit h starts at the first raw character of token k of literal j of
\* the sequence at offset p, and its text is what the sequence decodes to
\* from that token on.
StartsAt(t, h, p, j, k) ==
    LET lits == LiteralsFrom(t, p)
        dec(i) == _decode_with_map(Slice(t, lits[i].b, lits[i].c))
        rest == Flat([ i \in 1 .. Len(lits) - j |-> dec(j + i).out_chars ])
    IN  /\ h.s = lits[j].b + dec(j).idx_map[k]
        /\ IsPrefix(h.frag, SubSeq(dec(j).out_chars, k, Len(dec(j).out_chars)) \o rest)

\* C20: _decode_with_map returns a string and an offset list of the same
\* length, entry k being the raw index of the first character of the source
\* token that produced decoded character k, so the list is strictly
\* increasing; and every base64 hit found in concatenated literals starts at
\* the offset of the original text of the first raw character of the token
\* its first decoded character comes from.
C20_OffsetMap ==
    /\ pc = "decoded" =>
          LET out == fn.ret.out_chars
              idx == fn.ret.idx_map
              end(k) == IF k < Len(idx) THEN idx[k + 1] ELSE Len(fn.raw)
          IN  /\ Len(idx) = Len(out)
              /\ (fn.raw # << >>) => (idx # << >> /\ idx[1] = 0)
              /\ \A k \in DOMAIN idx : TokenAt(fn.raw, idx[k], end(k), out[k])
              /\ \A k \in DOMAIN idx : k > 1 => idx[k - 1] < idx[k]
    /\ pc = "collected" =>
          \A x \in DOMAIN fn.concat :
             \E m \in Range(SeqIter(fn.text, 0)) :
                \E j \in DOMAIN LiteralsFrom(fn.text, m.s) :
                   LET lit == LiteralsFrom(fn.text, m.s)[j]
                   IN  /\ lit.c <= m.e
                       /\ \E k \in 1 .. lit.c - lit.b :
                             /\ k <= Len(_decode_with_map(Slice(fn.text, lit.b, lit.c)).idx_map)
                             /\ StartsAt(fn.text, fn.concat[x], m.s, j, k)

\* A hit of the concatenated scan, in a sequence that does not start the
\* text, whose first character is an escape that follows another escape and
\* whose text goes on in the next literal.
C20_Witness ==
    /\ pc = "collected"
    /\ \E x \in DOMAIN fn.concat :
          LET h == fn.concat[x]
          IN  /\ At(fn.text, h.s) = 92
              /\ h.s >= 4 /\ At(fn.text, h.s - 2) = 92
              /\ At(fn.text, 0) = 65
              /\ \E p \in h.s .. h.e - 1 : At(fn.text, p) = 34 /\ At(fn.text, p - 1) # 92

-----------------------------------------------------------------------------
(* C21 *)

\* The candidate phases of a unit, and a step that appends one slice to the
\* slice list and leaves the slices before it as they were.
AtCandidates == pc \in {"high", "mid_strong", "mid_normal"}
Appended ==
    /\ Len(slices') = Len(slices) + 1
    /\ SubSeq(slices', 1, Len(slices)) = slices

\* C21: in the candidate phases of a unit every step either appends one slice
\* and raises the count of that slice's trigger, the global total and, on the
\* strong-high path, the quota counter by exactly one, or leaves the slice
\* list and all these counters unchanged; no accepted slice is removed or
\* modified.
C21_Counters ==
    [][ AtCandidates =>
          \/ /\ Appended
             /\ total' = total + 1
             /\ \A k \in AllKeys :
                   Get(per_trigger_cnt', k, 0) =
                      Get(per_trigger_cnt, k, 0)
                         + (IF k = slices'[Len(slices')].trigger THEN 1 ELSE 0)
             /\ pc = "mid_strong" => added' = added + 1
          \/ /\ slices' = slices
             /\ total' = total
             /\ per_trigger_cnt' = per_trigger_cnt
             /\ pc = "mid_strong" => added' = added ]_vars

\* On the strong-high path, after two candidates of one mid trigger: a high
\* slice and one mid slice are accepted, the other candidate was rejected by
\* dedup with caps and quota still open, and the counters stand at the
\* accepted slices.
C21_Witness ==
    /\ pc = "mid_strong" /\ ki <= Len(StrongKeep)
    /\ StrongKeep[ki] \in DOMAIN per_trigger_cnt
    /\ CFG.PER_TRIGGER_CAP > per_trigger_cnt[StrongKeep[ki]]
    /\ added = 1 /\ added < StrongQuota /\ total < CFG.TOTAL_CAP
    /\ mi = 3
    /\ Len(slices) = 2 /\ total = 2
    /\ per_trigger_cnt[StrongKeep[ki]] = 1

-----------------------------------------------------------------------------
(* C22 *)

\* The order the claim names for the high triggers, the order of the mid
\* triggers on the path the unit takes, and the place of a trigger in the
\* two, high triggers first.
ClaimedHighOrder == << "reg_run", "service_str", "tasks_sched", "inline_syscall",
                       "pe_embed", "mz_pe_hdr" >>
MidOrderOfUnit ==
    IF sev_flags.strong_high /\ CFG.SKIP_MID_WHEN_STRONG_HIGH
    THEN StrongKeep ELSE MID_ORDER
PlaceOf(t) ==
    IF \E i \in DOMAIN ClaimedHighOrder : ClaimedHighOrder[i] = t
    THEN CHOOSE i \in DOMAIN ClaimedHighOrder : ClaimedHighOrder[i] = t
    ELSE Len(ClaimedHighOrder)
           + (CHOOSE i \in DOMAIN MidOrderOfUnit : MidOrderOfUnit[i] = t)
Ascending(q) == \A i, j \in DOMAIN q : i < j => q[i].s < q[j].s

\* The candidate a step considers: the loops stay where they are and move to
\* the next match of the key.
Considers == AtCandidates /\ pc' = pc /\ ki' = ki /\ mi' = mi + 1
MidPhase == pc \in {"mid_strong", "mid_normal"}

\* C22: within a unit the high triggers are gone through in the order
\* reg_run, service_str, tasks_sched, inline_syscall, pe_embed, mz_pe_hdr, then
\* the mid triggers in the fixed order of the path, each trigger's matches in
\* ascending start offset; the slices are accepted in that order; once a mid
\* trigger is considered the high phase is over for the unit, and the mid
\* phase starts with the budget PER_UNIT_CAP less the slices of the high phase
\* and never fills the unit beyond PER_UNIT_CAP.
C22_Order ==
    /\ [](InUnit =>
            /\ \A k \in DOMAIN high_matches : Ascending(high_matches[k])
            /\ \A k \in DOMAIN mid_matches : Ascending(mid_matches[k])
            /\ \A i, j \in DOMAIN slices :
                  i < j => /\ PlaceOf(slices[i].trigger) <= PlaceOf(slices[j].trigger)
                           /\ slices[i].trigger = slices[j].trigger
                                 => slices[i].start_line <= slices[j].start_line
            /\ Len(slices) <= CFG.PER_UNIT_CAP
            /\ MidPhase => CountMid(slices) <= mid_budget)
    /\ [][ /\ Considers /\ pc = "high" =>
                /\ ClaimedHighOrder[ki] \in DOMAIN high_matches
                /\ slices' # slices =>
                      /\ slices'[Len(slices')].trigger = ClaimedHighOrder[ki]
                      /\ slices'[Len(slices')].start_line
                            = WinLo(CurUnit, high_matches[ClaimedHighOrder[ki]][mi])
           /\ Considers /\ MidPhase =>
                /\ MidOrderOfUnit[ki] \in DOMAIN mid_matches
                /\ slices' # slices =>
                      /\ slices'[Len(slices')].trigger = MidOrderOfUnit[ki]
                      /\ slices'[Len(slices')].start_line
                            = WinLo(CurUnit, mid_matches[MidOrderOfUnit[ki]][mi])
           /\ AtCandidates /\ pc' = pc => \/ ki' = ki /\ mi' = mi + 1
                                          \/ ki' > ki /\ mi' = 1
           /\ MidPhase => pc' \in {pc, "unit_end"}
           /\ pc = "high" /\ pc' # "high" =>
                /\ slices' = slices
                /\ mid_budget' = Max(0, CFG.PER_UNIT_CAP - Len(slices))
                /\ pc' \in {"mid_strong", "mid_normal"} => mid_budget' > 0 ]_vars

\* The end of a unit that took a service_str slice, then a pe_embed slice,
\* then a b64_blob slice on an earlier line than both.
C22_Witness ==
    /\ pc = "unit_end"
    /\ Len(slices) = 3
    /\ slices[1].trigger = "service_str"
    /\ slices[2].trigger = "pe_embed"
    /\ slices[3].trigger = "b64_blob"
    /\ slices[3].start_line < slices[1].start_line
    /\ slices[1].start_line < slices[2].start_line

-----------------------------------------------------------------------------
(* C23 *)

\* Every slice made so far, and the mid categories of the current unit that
\* are not disabled and have a match.
AllSlices ==
    UNION { Range(out_units[i].slices) : i \in DOMAIN out_units }
       \cup (IF InUnit THEN Range(slices) ELSE {})
EnabledMidFound ==
    { k \in Range(RX_MID_KEYS) \ disable_mid :
        CurUnit.hits[k] # << >> \/ (k = "b64_blob" /\ CurUnit.b64_concat # << >>) }

\* C23: once main has applied --disable-mid, a mid trigger named in it has no
\* match list and no slice, and PE hits are promoted to high only when the
\* mid triggers that are not disabled reach PE_PROMOTE_WITH_MID categories.
C23_DisableMid ==
    pc # "main" =>
        /\ \A k \in disable_mid \cap Range(RX_MID_KEYS) :
              /\ k \notin RX_MID
              /\ k \notin DOMAIN mid_matches
              /\ \A s \in AllSlices : s.trigger # k
        /\ InUnit /\ sev_flags.pe_high =>
              Cardinality(EnabledMidFound) >= CFG.PE_PROMOTE_WITH_MID

-----------------------------------------------------------------------------
(* C24 *)

\* Every match of every strong-high trigger in u satisfies the allowlist.
AllMuted(u) ==
    \A i \in 1 .. Len(STRONG_KEYS) :
        \A h \in DOMAIN u.hits[STRONG_KEYS[i]] :
            FragSatisfies(STRONG_KEYS[i], u.hits[STRONG_KEYS[i]][h].frag)

\* C24: strong_high is set exactly when reg_run, service_str, tasks_sched or
\* inline_syscall has a match in the raw text of the unit, whatever the
\* allowlist discards afterwards: a unit whose strong-high matches are all
\* allowlisted has no strong-high slice and, with SKIP_MID_WHEN_STRONG_HIGH on,
\* still gets only whitelisted mid slices, at most MID_MIN_WHEN_STRONG_HIGH.
C24_StrongHigh ==
    /\ InUnit => (sev_flags.strong_high <=> UnitStrong(CurUnit))
    /\ pc \in {"loop", "done"} =>
          \A j \in DOMAIN units :
              LET u  == units[j]
                  sl == UnitSlices(j)
              IN  (UnitStrong(u) /\ AllMuted(u)) =>
                      /\ \A i \in DOMAIN sl : sl[i].trigger \notin Range(STRONG_KEYS)
                      /\ CFG.SKIP_MID_WHEN_STRONG_HIGH =>
                            /\ \A i \in DOMAIN sl :
                                  IsMid(sl[i].trigger) =>
                                      sl[i].trigger \in Range(CFG.MID_WHITELIST_STRONG)
                            /\ CountMid(sl) <= CFG.MID_MIN_WHEN_STRONG_HIGH

\* A finished unit whose only strong-high match, a reg_run, is allowlisted, and
\* which holds a b64_blob and a cast_call match on lines of their own: the
\* output is the b64_blob slice alone.
C24_Witness ==
    /\ pc = "done"
    /\ CFG.SKIP_MID_WHEN_STRONG_HIGH
    /\ \E j \in DOMAIN units :
          LET u  == units[j]
              sl == UnitSlices(j)
          IN  /\ Len(u.hits["reg_run"]) = 1 /\ AllMuted(u)
              /\ Len(u.hits["b64_blob"]) = 1 /\ Len(u.hits["cast_call"]) = 1
              /\ ~ HitsAtLeast(u, u.hits["b64_blob"][1], u.hits["cast_call"][1], 1)
              /\ "cast_call" \notin Range(CFG.MID_WHITELIST_STRONG)
              /\ Len(sl) = 1 /\ sl[1].trigger = "b64_blob"

-----------------------------------------------------------------------------
(* C25 *)

\* The position in the input batch of the unit output unit i was made from.
InputPos(i) == out_pos[i]
SliceCounts == [ i \in DOMAIN out_units |-> Len(out_units[i].slices) ]

\* C25: when process_units has returned, total_slices of the summary is the sum
\* of the slice counts of the output units, units of the summary is the number
\* of output units, every output unit has at least one slice, and the output
\* units stand in the order of their units in the input.
C25_Summary ==
    pc = "done" =>
        /\ summary.total_slices = SumSeq(SliceCounts)
        /\ summary.units = Len(out_units)
        /\ \A i \in DOMAIN out_units : out_units[i].slices # << >>
        /\ \A i \in DOMAIN out_units :
              /\ InputPos(i) \in DOMAIN units
              /\ units[InputPos(i)].unit_id = out_units[i].unit_id
              /\ units[InputPos(i)].name = out_units[i].name
        /\ \A i, j \in DOMAIN out_units : i < j => InputPos(i) < InputPos(j)

\* A returned batch of three units of which the first and the third are put
\* out, the second having produced no slice, with three slices in all.
C25_Witness ==
    /\ pc = "done"
    /\ Len(units) = 3 /\ ~ units[2].fault
    /\ Len(out_units) = 2
    /\ InputPos(1) = 1 /\ InputPos(2) = 3
    /\ summary.total_slices = 3
    /\ Len(out_units[1].slices) = 2

-----------------------------------------------------------------------------
(* C26 *)

\* The line of _text_to_lines(text) in which the character at the match start
\* lies: the last line of the text cut after that character.
PhysicalLine == Len(_text_to_lines(SubSeq(fn.text, 1, fn.s + 1)))

\* C26 as stated: for every text, with line breaks of any kind, and every
\* WINDOW_LINES >= 0, the window of the slice contains the line of the text in
\* which the match starts, under a line number equal to one plus the newline
\* characters before the match start.
C26_PhysicalLine ==
    pc = "made_slice" =>
        /\ \E i \in DOMAIN fn.slice.decomp_slice :
              /\ fn.slice.decomp_slice[i].lineno = PhysicalLine
              /\ fn.slice.decomp_slice[i].text = _text_to_lines(fn.text)[PhysicalLine]
        /\ PhysicalLine = MatchLine

=============================================================================
